---- MODULE Spec2Model ----
(***************************************************************************)
(* Model of the Nadi demo application (src/unnamed/part_000): the screen   *)
(* navigator (showScreen, goBack and the reset-and-show helpers) and the   *)
(* scripted chat (selectTheme, sendMessage, handleFileUpload and their     *)
(* setTimeout callbacks).                                                  *)
(*                                                                         *)
(* The DOM is modelled by what the handlers read and write of it: the set  *)
(* of '.screen' elements (dom), the subset carrying the class 'active'     *)
(* (active), the number of typing-indicator elements in the chat list      *)
(* (typing) and what updateChatStatus last wrote (status).                 *)
(*                                                                         *)
(* The document helper (src/ocr-module.js) is one DocumentOCR instance.    *)
(* An async method call is a record of calls with the await it is          *)
(* suspended at; the awaited operations settle in any order.  Its pure     *)
(* text functions work on sequences of one-character strings.              *)
(*                                                                         *)
(* Time is counted in units of 500 ms.  A pending setTimeout is a record   *)
(* with the time left (rem); timers fire in order of deadline, and in      *)
(* order of creation when the deadlines are equal.                         *)
(***************************************************************************)
EXTENDS Integers, Sequences, FiniteSets, TLC

VARIABLES
    dom,              \* ids of the '.screen' elements present in the page
    active,           \* ids of the screens whose classList holds 'active'
    currentScreen,    \* appState.currentScreen
    previousScreens,  \* appState.previousScreens
    op,               \* the handler or callback that ran last (a sendMessage()
                      \* that returns at once on blank input is not recorded):
                      \* [name, screen, k, sess], where screen is the id passed
                      \* to showScreen ("" if none), k is Len(previousScreens)
                      \* before a navigation handler or the number of the user
                      \* message a chat handler or callback belongs to, and
                      \* sess is the theme session that scheduled a callback
    trail,            \* screens visited by the current run of forward navigations
    backs,            \* goBack() calls made in a row since the last forward navigation
    selectedTheme,    \* appState.selectedTheme
    chatMessages,     \* appState.chatMessages: [type, text]
    exchangeCount,    \* appState.exchangeCount
    timeCount,        \* appState.timeCount
    uploadedPhotos,   \* appState.uploadedPhotos (file names)
    typing,           \* number of #typingIndicator elements in the chat list
    status,           \* progress and story button as updateChatStatus last set them
    timers,           \* pending setTimeout callbacks, in order of creation
    session,          \* number of theme selections made so far
    sent,             \* number of user messages added so far, over all sessions
    storyTitle,       \* text of the element #storyTitle
    storyPreview,     \* text shown in the element #storyPreview
    wordsCount,       \* text of the element #wordsCount
    imagesCount,      \* text of the element #imagesCount
    durationCount,    \* text of the element #durationCount
    opened,           \* sessions whose opening message has been appended
    answered,         \* number of calls of respondToUser made so far
    isTransitioning,  \* the flag isTransitioning of startFromSplash
    isVoiceActive,    \* appState.isVoiceActive
    voiceStarts,      \* number of calls of startVoice() made so far
    voiceStopped,     \* the voice sessions (numbered by voiceStarts) that
                      \* toggleVoice() stopped
    userInput,        \* value of #userInput as the page last set it (what the
                      \* user types is the argument of SendMessage)
    sendButton,       \* whether #sendButton carries the class 'visible'
    storyIndex,       \* the variable storyIndex of the story page
    shownStory,       \* index of the story updateStoryDisplay() last showed,
                      \* -1 for the static page
    swipeHint,        \* the '.swipe-hint' element: [text, fontWeight]
    worker,           \* DocumentOCR.worker: 0 for null, else the number of the
                      \* createWorker call that produced the worker
    isInitialized,    \* DocumentOCR.isInitialized
    recognizedDocuments, \* DocumentOCR.recognizedDocuments
    loadingIndicator, \* whether #ocrLoadingIndicator is displayed
    calls,            \* the calls of initialize() and recognizeDocument() made
                      \* so far: [method, file, pc, w, used, thrown, rejection]
    createWorkerCalls, \* number of calls of Tesseract.createWorker made so far
    docText,          \* the text given to extractMetadata and detectBlockType
    metadata,         \* what extractMetadata(docText) returned
    blockType,        \* what detectBlockType(docText) returned
    scored,           \* the last call of calculateRelevanceScore:
                      \* [question, document, score]
    before,           \* the call of calculateRelevanceScore before that one
    matched,          \* the call of matchQuestionsToDocument:
                      \* [document, questions, matches, done]
    bat               \* a run of start_audit.bat: [pc, errorlevel, expanded, out,
                      \* ran], where expanded is the value %errorlevel% was
                      \* replaced by when the block being executed was read

navVarsButOp == <<dom, active, currentScreen, previousScreens>>

navVars == <<navVarsButOp, op, trail, backs>>

chatVars == <<selectedTheme, chatMessages, exchangeCount, timeCount,
              uploadedPhotos, typing, status, timers, session, sent,
              storyTitle, storyPreview, wordsCount, imagesCount, durationCount,
              opened>>

voiceVars == <<isVoiceActive, voiceStarts, voiceStopped, userInput, sendButton>>

swipeVars == <<storyIndex, shownStory, swipeHint>>

pageVars == <<navVars, chatVars, answered, isTransitioning, voiceVars, swipeVars>>

ocrVars == <<worker, isInitialized, recognizedDocuments, loadingIndicator,
             calls, createWorkerCalls>>

textVars == <<docText, metadata, blockType>>

matchVars == <<scored, before, matched>>

\* the DocumentOCR instance and the run of the launcher
libVars == <<ocrVars, textVars, matchVars, bat>>

\* what the navigation and chat handlers other than startFromSplash and the
\* reply callback leave alone
otherVars == <<answered, isTransitioning, voiceVars, swipeVars, libVars>>

vars == <<pageVars, libVars>>

storyVars == <<storyTitle, storyPreview, wordsCount, imagesCount, durationCount>>

(***************************************************************************)
(* Bounds of the model.                                                    *)
(***************************************************************************)
MaxHist == 3          \* longest history stack explored
MaxSessions == 2      \* theme selections explored
MaxUserMsgs == 2      \* user messages (typed or photo) per page load
MaxTalk == 6          \* user messages of the long single-theme conversation
MaxPhotos == 1        \* photos uploaded per page load
MaxPending == 2       \* setTimeout callbacks pending at once
MaxMinutes == 1       \* firings of the one-minute interval counted per session
MaxQuestions == 2     \* questions given to matchQuestionsToDocument
MaxFragments == 3     \* pieces a text is put together from
MaxCalls == 2         \* calls of initialize() and recognizeDocument() per instance

(***************************************************************************)
(* Screens.  ScreenIds are the ids handlers are called with; NoSuchScreen  *)
(* is an id no element carries.                                            *)
(***************************************************************************)
NoSuchScreen == "nosuch"
AllScreens == {"splash", "scenarioSelect", "welcome", "chat"}
ScreenIds == AllScreens \cup {NoSuchScreen}
DomChoices == {AllScreens, AllScreens \ {"welcome"}}

Last(s) == s[Len(s)]
Front(s) == SubSeq(s, 1, Len(s) - 1)

(***************************************************************************)
(* showScreen(screenId), as a function of the navigation state             *)
(* nav = [currentScreen, previousScreens, active].  The class 'active' is  *)
(* removed from every screen before the element is looked up.              *)
(***************************************************************************)
showScreenKeepsOthers(nav, screenId) ==
    IF screenId \in dom
    THEN [ currentScreen   |-> screenId,
           previousScreens |-> IF nav.currentScreen # screenId
                               THEN Append(nav.previousScreens, nav.currentScreen)
                               ELSE nav.previousScreens,
           active          |-> nav.active \cup {screenId} ]
    ELSE [ nav EXCEPT !.active = {} ]

showScreenAlwaysPushes(nav, screenId) ==
    IF screenId \in dom
    THEN [ currentScreen   |-> screenId,
           previousScreens |-> Append(nav.previousScreens, nav.currentScreen),
           active          |-> {screenId} ]
    ELSE [ nav EXCEPT !.active = {} ]

showScreenUnchecked(nav, screenId) ==
    [ currentScreen   |-> screenId,
      previousScreens |-> IF nav.currentScreen # screenId
                          THEN Append(nav.previousScreens, nav.currentScreen)
                          ELSE nav.previousScreens,
      active          |-> {screenId} \cap dom ]

showScreen(nav, screenId) ==
    IF screenId \in dom
    THEN [ currentScreen   |-> screenId,
           previousScreens |-> IF nav.currentScreen # screenId
                               THEN Append(nav.previousScreens, nav.currentScreen)
                               ELSE nav.previousScreens,
           active          |-> {screenId} ]
    ELSE [ nav EXCEPT !.active = {} ]

(***************************************************************************)
(* goBack(): pop and show the popped screen, or show 'welcome'.            *)
(***************************************************************************)
DefaultScreen == "welcome"

goBackToSplash(nav) ==
    IF Len(nav.previousScreens) > 0
    THEN showScreen([nav EXCEPT !.previousScreens = Front(nav.previousScreens)],
                    Last(nav.previousScreens))
    ELSE showScreen(nav, "splash")

goBack(nav) ==
    IF Len(nav.previousScreens) > 0
    THEN showScreen([nav EXCEPT !.previousScreens = Front(nav.previousScreens)],
                    Last(nav.previousScreens))
    ELSE showScreen(nav, DefaultScreen)

(***************************************************************************)
(* goToSplash(), goToScenarios(), backToWelcome(): clear the history, then *)
(* showScreen(target).                                                     *)
(***************************************************************************)
resetAndShowKeepsHistory(nav, screenId) == showScreen(nav, screenId)

resetAndShow(nav, screenId) ==
    showScreen([nav EXCEPT !.previousScreens = <<>>], screenId)

Nav == [ currentScreen   |-> currentScreen,
         previousScreens |-> previousScreens,
         active          |-> active ]

SetNav(n) ==
    /\ currentScreen' = n.currentScreen
    /\ previousScreens' = n.previousScreens
    /\ active' = n.active
    /\ UNCHANGED dom

NavOp(name, screenId) ==
    [ name |-> name, screen |-> screenId, k |-> Len(previousScreens), sess |-> 0 ]

(***************************************************************************)
(* Bookkeeping of the current run of forward navigations s0, s1, ..., sN   *)
(* and of the goBack() calls that follow it.                               *)
(***************************************************************************)
Forward(screenId) ==
    /\ trail' = IF backs = 0 THEN Append(trail, screenId)
                ELSE <<currentScreen, screenId>>
    /\ backs' = 0

Back ==
    IF backs + 1 <= Len(trail) - 1
    THEN trail' = trail /\ backs' = backs + 1
    ELSE trail' = <<currentScreen'>> /\ backs' = 0

Restart ==
    /\ trail' = <<currentScreen'>>
    /\ backs' = 0

(***************************************************************************)
(* The navigation handlers.                                                *)
(***************************************************************************)
ShowScreen(screenId) ==
    /\ UNCHANGED otherVars
    /\ UNCHANGED chatVars
    /\ Len(showScreen(Nav, screenId).previousScreens) <= MaxHist
    /\ SetNav(showScreen(Nav, screenId))
    /\ op' = NavOp("showScreen", screenId)
    /\ IF screenId \in dom /\ screenId # currentScreen
       THEN Forward(screenId)
       ELSE Restart

GoBack ==
    /\ UNCHANGED otherVars
    /\ UNCHANGED chatVars
    /\ Len(goBack(Nav).previousScreens) <= MaxHist
    /\ SetNav(goBack(Nav))
    /\ op' = NavOp("goBack", IF Len(previousScreens) > 0
                             THEN Last(previousScreens) ELSE DefaultScreen)
    /\ Back

GoToSplash ==
    /\ UNCHANGED otherVars
    /\ UNCHANGED chatVars
    /\ SetNav(resetAndShow(Nav, "splash"))
    /\ op' = NavOp("goToSplash", "splash")
    /\ Restart

GoToScenarios ==
    /\ UNCHANGED otherVars
    /\ UNCHANGED chatVars
    /\ SetNav(resetAndShow(Nav, "scenarioSelect"))
    /\ op' = NavOp("goToScenarios", "scenarioSelect")
    /\ Restart

BackToWelcome ==
    /\ UNCHANGED otherVars
    /\ UNCHANGED chatVars
    /\ SetNav(resetAndShow(Nav, "welcome"))
    /\ op' = NavOp("backToWelcome", "welcome")
    /\ Restart

(***************************************************************************)
(* The theme catalog.  Texts are sequences of tokens; a question is one    *)
(* token, named by theme and position in the list.                         *)
(***************************************************************************)
themes ==
    [ home      |-> [ name |-> "home",
                      questions |-> <<"home.q0", "home.q1", "home.q2",
                                      "home.q3", "home.q4">> ],
      childhood |-> [ name |-> "childhood",
                      questions |-> <<"childhood.q0", "childhood.q1", "childhood.q2",
                                      "childhood.q3", "childhood.q4">> ],
      family    |-> [ name |-> "family",
                      questions |-> <<"family.q0", "family.q1", "family.q2",
                                      "family.q3", "family.q4">> ],
      happiness |-> [ name |-> "happiness",
                      questions |-> <<"happiness.q0", "happiness.q1", "happiness.q2",
                                      "happiness.q3", "happiness.q4">> ] ]

ThemeInputs == {"home", "childhood"}      \* themes selected in a long conversation
ChatThemes == {"home"}                    \* theme selected, again and again, in SpecChat

responses == <<"ack.interesting", "ack.wonderful", "ack.touching",
               "ack.memory", "ack.understand">>
AckIndexes == {1, Len(responses)}         \* values of Math.random() explored

OpeningPrefix == "Great choice!"
TipLine == "tip.photos"
ClosingLine == "closing.collectedEverything"
MoreLine == "Tell me more about it."
PhotoReplyLine == "photo.whatIsOnIt"

(***************************************************************************)
(* setTimeout delays, in units of 500 ms.                                  *)
(***************************************************************************)
OpenDelay == 1
TipDelay == 4
ReplyDelay == 4
PhotoTypingDelay == 1
PhotoReplyDelay == 4

Timer(kind, rem, theme, text, k) ==
    [ kind |-> kind, rem |-> rem, theme |-> theme, text |-> text,
      k |-> k, sess |-> session ]

Due == { i \in 1..Len(timers) : timers[i].rem = 0 }

FirstDue == CHOOSE i \in Due : \A j \in Due : i <= j

Without(seq, i) == SubSeq(seq, 1, i - 1) \o SubSeq(seq, i + 1, Len(seq))

(***************************************************************************)
(* String.prototype.trim on a sequence of characters.                      *)
(***************************************************************************)
InputValues == { <<>>, <<" ">>, <<"a">>, <<" ", "a">>, <<"a", " ">> }

Trim(str) ==
    LET solid == { i \in 1..Len(str) : str[i] # " " }
        first == CHOOSE i \in solid : \A j \in solid : i <= j
        last  == CHOOSE i \in solid : \A j \in solid : i >= j
    IN  IF solid = {} THEN <<>> ELSE SubSeq(str, first, last)

FileNames == {"photo.jpg"}

PhotoText(name) == <<"[photo", " ", "uploaded:", " ", name, "]">>

(***************************************************************************)
(* updateChatStatus(), for a value of exchangeCount.                       *)
(***************************************************************************)
TotalQuestions == 10
StoryThreshold == 5

updateChatStatus(count) ==
    [ set      |-> TRUE,
      progress |-> IF (count * 100) \div TotalQuestions < 100
                   THEN (count * 100) \div TotalQuestions ELSE 100,
      enabled  |-> count >= StoryThreshold ]

(***************************************************************************)
(* respondToUser(userText): the text passed to addNadiMessage, given the   *)
(* acknowledgement getContextualResponse drew.                             *)
(***************************************************************************)
respondToUserStrictBound(userText, ack) ==
    IF /\ selectedTheme \in DOMAIN themes
       /\ exchangeCount < Len(themes[selectedTheme].questions)
    THEN <<ack, themes[selectedTheme].questions[exchangeCount + 1]>>
    ELSE <<ack, MoreLine>>

respondToUser(userText, ack) ==
    IF /\ selectedTheme \in DOMAIN themes
       /\ exchangeCount <= Len(themes[selectedTheme].questions)
    THEN IF exchangeCount < Len(themes[selectedTheme].questions)
         THEN <<ack, themes[selectedTheme].questions[exchangeCount + 1]>>
         ELSE <<ClosingLine>>
    ELSE <<ack, MoreLine>>

NadiMessage(text) == [ type |-> "nadi", text |-> text ]
UserMessage(text) == [ type |-> "user", text |-> text ]

ChatOp(name, screenId, k, sess) ==
    [ name |-> name, screen |-> screenId, k |-> k, sess |-> sess ]

NavUnchanged == UNCHANGED <<navVarsButOp, trail, backs>>

(***************************************************************************)
(* selectTheme(themeId).                                                   *)
(***************************************************************************)
SelectThemeKeepsCount(themeId) ==
    /\ UNCHANGED otherVars
    /\ selectedTheme' = themeId
    /\ chatMessages' = <<>>
    /\ timeCount' = 0
    /\ typing' = 0
    /\ SetNav(showScreen(Nav, "chat"))
    /\ IF "chat" \in dom /\ currentScreen # "chat" THEN Forward("chat") ELSE Restart
    /\ session' = session + 1
    /\ timers' = Append(timers, [ Timer("open", OpenDelay, themeId, <<>>, 0)
                                    EXCEPT !.sess = session + 1 ])
    /\ op' = ChatOp("selectTheme", "chat", 0, session + 1)
    /\ UNCHANGED <<exchangeCount, uploadedPhotos, status, sent, storyVars, opened>>

SelectTheme(themeId) ==
    /\ UNCHANGED otherVars
    /\ selectedTheme' = themeId
    /\ chatMessages' = <<>>
    /\ exchangeCount' = 0
    /\ timeCount' = 0
    /\ typing' = 0
    /\ SetNav(showScreen(Nav, "chat"))
    /\ IF "chat" \in dom /\ currentScreen # "chat" THEN Forward("chat") ELSE Restart
    /\ session' = session + 1
    /\ timers' = Append(timers, [ Timer("open", OpenDelay, themeId, <<>>, 0)
                                    EXCEPT !.sess = session + 1 ])
    /\ op' = ChatOp("selectTheme", "chat", 0, session + 1)
    /\ UNCHANGED <<uploadedPhotos, status, sent, storyVars, opened>>

(***************************************************************************)
(* customTheme(), with what prompt() returned: the name typed, "" for an   *)
(* empty field, Cancelled when the dialog was dismissed.                   *)
(***************************************************************************)
Cancelled == "prompt.cancelled"
PromptInputs == {Cancelled, "", "garden"}
CustomOpeningLine == "is a wonderful theme! What would you like to recall?"

CustomThemeKeepsMessages(customThemeName) ==
    IF customThemeName \notin {Cancelled, ""}
    THEN /\ selectedTheme' = "custom"
         /\ exchangeCount' = 0
         /\ timeCount' = 0
         /\ typing' = 0
         /\ SetNav(showScreen(Nav, "chat"))
         /\ IF "chat" \in dom /\ currentScreen # "chat" THEN Forward("chat") ELSE Restart
         /\ session' = session + 1
         /\ timers' = Append(timers, [ Timer("openCustom", OpenDelay, "custom",
                                             <<customThemeName>>, 0)
                                         EXCEPT !.sess = session + 1 ])
         /\ op' = ChatOp("customTheme", "chat", 0, session + 1)
         /\ UNCHANGED <<chatMessages, uploadedPhotos, status, sent, storyVars, opened,
                        otherVars>>
    ELSE UNCHANGED vars

CustomTheme(customThemeName) ==
    IF customThemeName \notin {Cancelled, ""}
    THEN /\ selectedTheme' = "custom"
         /\ chatMessages' = <<>>
         /\ exchangeCount' = 0
         /\ timeCount' = 0
         /\ typing' = 0
         /\ SetNav(showScreen(Nav, "chat"))
         /\ IF "chat" \in dom /\ currentScreen # "chat" THEN Forward("chat") ELSE Restart
         /\ session' = session + 1
         /\ timers' = Append(timers, [ Timer("openCustom", OpenDelay, "custom",
                                             <<customThemeName>>, 0)
                                         EXCEPT !.sess = session + 1 ])
         /\ op' = ChatOp("customTheme", "chat", 0, session + 1)
         /\ UNCHANGED <<uploadedPhotos, status, sent, storyVars, opened, otherVars>>
    ELSE UNCHANGED vars

(***************************************************************************)
(* openChat(chatId): showScreen('chat').                                   *)
(***************************************************************************)
ChatIds == {"chat1"}

OpenChat(chatId) ==
    /\ UNCHANGED otherVars
    /\ SetNav(showScreen(Nav, "chat"))
    /\ IF "chat" \in dom /\ currentScreen # "chat" THEN Forward("chat") ELSE Restart
    /\ op' = ChatOp("openChat", "chat", 0, session)
    /\ UNCHANGED chatVars

(***************************************************************************)
(* generateStory(): the story title, preview and statistics.               *)
(***************************************************************************)
PreviewLength == 200
DefaultDuration == 8

RECURSIVE Join(_, _)
Join(texts, separator) ==
    IF Len(texts) = 0 THEN <<>>
    ELSE IF Len(texts) = 1 THEN texts[1]
    ELSE texts[1] \o <<separator>> \o Join(Tail(texts), separator)

\* String.prototype.substring(from, to), 0 <= from <= to
Substring(str, from, to) ==
    SubSeq(str, from + 1, IF to < Len(str) THEN to ELSE Len(str))

\* number of pieces of str.split(separator)
SplitLength(str, separator) ==
    Cardinality({ i \in 1..Len(str) : str[i] = separator }) + 1

IsUser(msg) == msg.type = "user"

UserTexts(messages) ==
    LET users == SelectSeq(messages, IsUser)
    IN  [ i \in 1..Len(users) |-> users[i].text ]

PreviewMarkup(str) == <<"\"">> \o str \o <<"...\"">>

generateStory ==
    LET userMessages == Join(UserTexts(chatMessages), " ")
    IN  /\ storyTitle' = IF selectedTheme \in DOMAIN themes
                         THEN <<"book ", themes[selectedTheme].name>>
                         ELSE storyTitle
        /\ storyPreview' = IF userMessages # <<>>
                           THEN PreviewMarkup(Substring(userMessages, 0, PreviewLength))
                           ELSE storyPreview
        /\ wordsCount' = SplitLength(userMessages, " ")
        /\ imagesCount' = Len(uploadedPhotos)
        /\ durationCount' = IF timeCount # 0 THEN timeCount ELSE DefaultDuration

(***************************************************************************)
(* finishChat(): showScreen('result'); generateStory().                    *)
(***************************************************************************)
FinishChat ==
    /\ UNCHANGED otherVars
    /\ SetNav(showScreen(Nav, "result"))
    /\ IF "result" \in dom /\ currentScreen # "result" THEN Forward("result") ELSE Restart
    /\ generateStory
    /\ op' = ChatOp("finishChat", "result", exchangeCount, session)
    /\ UNCHANGED <<selectedTheme, chatMessages, exchangeCount, timeCount,
                   uploadedPhotos, typing, status, timers, session, sent, opened>>

(***************************************************************************)
(* sendMessage(), with the content of the input field.                     *)
(***************************************************************************)
SendMessageUntrimmed(inputValue) ==
    /\ UNCHANGED <<answered, isTransitioning, isVoiceActive, voiceStarts,
                   voiceStopped, swipeVars, libVars>>
    /\ op' = IF inputValue # <<>>
             THEN ChatOp("sendMessage", "", exchangeCount + 1, session)
             ELSE op
    /\ NavUnchanged
    /\ UNCHANGED <<selectedTheme, timeCount, uploadedPhotos, session,
                   storyVars, opened>>
    /\ IF inputValue # <<>>
       THEN /\ chatMessages' = Append(chatMessages, UserMessage(inputValue))
            /\ exchangeCount' = exchangeCount + 1
            /\ status' = updateChatStatus(exchangeCount + 1)
            /\ typing' = typing + 1
            /\ timers' = Append(timers, Timer("reply", ReplyDelay, "", inputValue,
                                              exchangeCount + 1))
            /\ sent' = sent + 1
            /\ userInput' = <<>>
            /\ sendButton' = FALSE
       ELSE UNCHANGED <<chatMessages, exchangeCount, status, typing, timers, sent,
                        userInput, sendButton>>

SendMessage(inputValue) ==
    /\ UNCHANGED <<answered, isTransitioning, isVoiceActive, voiceStarts,
                   voiceStopped, swipeVars, libVars>>
    /\ op' = IF Trim(inputValue) # <<>>
             THEN ChatOp("sendMessage", "", exchangeCount + 1, session)
             ELSE op
    /\ NavUnchanged
    /\ UNCHANGED <<selectedTheme, timeCount, uploadedPhotos, session,
                   storyVars, opened>>
    /\ IF Trim(inputValue) # <<>>
       THEN /\ chatMessages' = Append(chatMessages, UserMessage(Trim(inputValue)))
            /\ exchangeCount' = exchangeCount + 1
            /\ status' = updateChatStatus(exchangeCount + 1)
            /\ typing' = typing + 1
            /\ timers' = Append(timers, Timer("reply", ReplyDelay, "", Trim(inputValue),
                                              exchangeCount + 1))
            /\ sent' = sent + 1
            /\ userInput' = <<>>
            /\ sendButton' = FALSE
       ELSE UNCHANGED <<chatMessages, exchangeCount, status, typing, timers, sent,
                        userInput, sendButton>>

(***************************************************************************)
(* handleFileUpload(event), with one file chosen.                          *)
(***************************************************************************)
HandleFileUploadCountsTwice(name) ==
    /\ UNCHANGED otherVars
    /\ sent' = sent + 1
    /\ uploadedPhotos' = Append(uploadedPhotos, name)
    /\ chatMessages' = Append(chatMessages, UserMessage(PhotoText(name)))
    /\ exchangeCount' = exchangeCount + 2
    /\ status' = updateChatStatus(exchangeCount + 2)
    /\ timers' = Append(timers, Timer("photoTyping", PhotoTypingDelay, "", <<>>,
                                      exchangeCount + 2))
    /\ op' = ChatOp("handleFileUpload", "", exchangeCount + 2, session)
    /\ NavUnchanged
    /\ UNCHANGED <<selectedTheme, timeCount, typing, session, storyVars, opened>>

HandleFileUpload(name) ==
    /\ UNCHANGED otherVars
    /\ sent' = sent + 1
    /\ uploadedPhotos' = Append(uploadedPhotos, name)
    /\ chatMessages' = Append(chatMessages, UserMessage(PhotoText(name)))
    /\ exchangeCount' = exchangeCount + 1
    /\ status' = updateChatStatus(exchangeCount + 1)
    /\ timers' = Append(timers, Timer("photoTyping", PhotoTypingDelay, "", <<>>,
                                      exchangeCount + 1))
    /\ op' = ChatOp("handleFileUpload", "", exchangeCount + 1, session)
    /\ NavUnchanged
    /\ UNCHANGED <<selectedTheme, timeCount, typing, session, storyVars, opened>>

(***************************************************************************)
(* Time passes: no callback is due, and every pending timer gets closer.   *)
(***************************************************************************)
Tick ==
    /\ UNCHANGED otherVars
    /\ timers # <<>>
    /\ Due = {}
    /\ timers' = [ i \in 1..Len(timers) |-> [ timers[i] EXCEPT !.rem = @ - 1 ] ]
    /\ op' = ChatOp("tick", "", 0, session)
    /\ NavUnchanged
    /\ UNCHANGED <<selectedTheme, chatMessages, exchangeCount, timeCount,
                   uploadedPhotos, typing, status, session, sent,
                   storyVars, opened>>

(***************************************************************************)
(* The setTimeout callbacks.  T is the timer that fires.                   *)
(***************************************************************************)
T == timers[FirstDue]

FireFrameButAnswered ==
    /\ UNCHANGED <<isTransitioning, voiceVars, swipeVars, libVars>>
    /\ NavUnchanged
    /\ UNCHANGED <<selectedTheme, exchangeCount, timeCount, uploadedPhotos,
                   status, session, sent, storyVars>>

FireFrame ==
    /\ FireFrameButAnswered
    /\ UNCHANGED answered

OpeningFiresWithoutTip ==
    /\ Due # {}
    /\ T.kind = "open"
    /\ chatMessages' = Append(chatMessages,
           NadiMessage(<<OpeningPrefix, themes[T.theme].questions[1]>>))
    /\ timers' = Without(timers, FirstDue)
    /\ op' = ChatOp("opening", "", 0, T.sess)
    /\ opened' = opened \cup {T.sess}
    /\ FireFrame
    /\ UNCHANGED typing

\* selectTheme, first callback: the opening question, and the tip scheduled
OpeningFires ==
    /\ Due # {}
    /\ T.kind = "open"
    /\ chatMessages' = Append(chatMessages,
           NadiMessage(<<OpeningPrefix, themes[T.theme].questions[1]>>))
    /\ timers' = Append(Without(timers, FirstDue),
                        [ Timer("tip", TipDelay, "", <<>>, 0) EXCEPT !.sess = T.sess ])
    /\ op' = ChatOp("opening", "", 0, T.sess)
    /\ opened' = opened \cup {T.sess}
    /\ FireFrame
    /\ UNCHANGED typing

\* customTheme, first callback: the opening message, and the tip scheduled
CustomOpeningFires ==
    /\ Due # {}
    /\ T.kind = "openCustom"
    /\ chatMessages' = Append(chatMessages, NadiMessage(T.text \o <<CustomOpeningLine>>))
    /\ timers' = Append(Without(timers, FirstDue),
                        [ Timer("tip", TipDelay, "", <<>>, 0) EXCEPT !.sess = T.sess ])
    /\ op' = ChatOp("customOpening", "", 0, T.sess)
    /\ opened' = opened \cup {T.sess}
    /\ FireFrame
    /\ UNCHANGED typing

\* selectTheme and customTheme, second callback: the tip about photos
TipFires ==
    /\ Due # {}
    /\ T.kind = "tip"
    /\ chatMessages' = Append(chatMessages, NadiMessage(<<TipLine>>))
    /\ timers' = Without(timers, FirstDue)
    /\ op' = ChatOp("tip", "", 0, T.sess)
    /\ FireFrame
    /\ UNCHANGED <<typing, opened>>

ReplyFiresKeepsIndicator ==
    /\ Due # {}
    /\ T.kind = "reply"
    /\ \E i \in AckIndexes :
           chatMessages' = Append(chatMessages,
                                  NadiMessage(respondToUser(T.text, responses[i])))
    /\ timers' = Without(timers, FirstDue)
    /\ op' = ChatOp("respondToUser", "", T.k, T.sess)
    /\ answered' = answered + 1
    /\ FireFrameButAnswered
    /\ UNCHANGED <<typing, opened>>

\* sendMessage, callback: removeTypingIndicator(); respondToUser(text)
ReplyFires ==
    /\ Due # {}
    /\ T.kind = "reply"
    /\ typing' = IF typing > 0 THEN typing - 1 ELSE 0
    /\ \E i \in AckIndexes :
           chatMessages' = Append(chatMessages,
                                  NadiMessage(respondToUser(T.text, responses[i])))
    /\ timers' = Without(timers, FirstDue)
    /\ op' = ChatOp("respondToUser", "", T.k, T.sess)
    /\ answered' = answered + 1
    /\ FireFrameButAnswered
    /\ UNCHANGED opened

\* handleFileUpload, first callback: showTypingIndicator(), reply scheduled
PhotoTypingFires ==
    /\ Due # {}
    /\ T.kind = "photoTyping"
    /\ typing' = typing + 1
    /\ timers' = Append(Without(timers, FirstDue),
                        [ Timer("photoReply", PhotoReplyDelay, "", <<>>, T.k)
                            EXCEPT !.sess = T.sess ])
    /\ op' = ChatOp("photoTyping", "", T.k, T.sess)
    /\ FireFrame
    /\ UNCHANGED <<chatMessages, opened>>

\* handleFileUpload, second callback: the fixed reply to a photo
PhotoReplyFires ==
    /\ Due # {}
    /\ T.kind = "photoReply"
    /\ typing' = IF typing > 0 THEN typing - 1 ELSE 0
    /\ chatMessages' = Append(chatMessages, NadiMessage(<<PhotoReplyLine>>))
    /\ timers' = Without(timers, FirstDue)
    /\ op' = ChatOp("photoReply", "", T.k, T.sess)
    /\ FireFrame
    /\ UNCHANGED opened

(***************************************************************************)
(* The setInterval callback of DOMContentLoaded, once a minute.            *)
(***************************************************************************)
MinuteFires ==
    /\ UNCHANGED otherVars
    /\ currentScreen = "chat"
    /\ Len(chatMessages) > 0
    /\ timeCount' = timeCount + 1
    /\ status' = updateChatStatus(exchangeCount)
    /\ op' = ChatOp("minute", "", 0, session)
    /\ NavUnchanged
    /\ UNCHANGED <<selectedTheme, chatMessages, exchangeCount, uploadedPhotos,
                   typing, timers, session, sent, storyVars, opened>>

(***************************************************************************)
(* startFromSplash(), which splashClick() calls too, and its setTimeout    *)
(* callback.  The call of showScreen returns or throws; a call that throws *)
(* is taken to have changed nothing before it threw.                       *)
(***************************************************************************)
ResetDelay == 2
ShowOutcomes == {"returns", "throws"}

SplashFrame ==
    UNCHANGED <<selectedTheme, chatMessages, exchangeCount, timeCount, uploadedPhotos,
                typing, status, session, sent, storyVars, opened, answered,
                voiceVars, swipeVars, libVars>>

StartFromSplashUnguarded(outcome) ==
    /\ SplashFrame
    /\ op' = NavOp("startFromSplash", "scenarioSelect")
    /\ IF outcome = "returns"
       THEN /\ isTransitioning' = TRUE
            /\ SetNav(showScreen(Nav, "scenarioSelect"))
            /\ IF "scenarioSelect" \in dom /\ currentScreen # "scenarioSelect"
               THEN Forward("scenarioSelect") ELSE Restart
            /\ timers' = Append(timers, Timer("reset", ResetDelay, "", <<>>, 0))
       ELSE /\ isTransitioning' = FALSE
            /\ UNCHANGED <<navVarsButOp, trail, backs, timers>>

StartFromSplashCatchKeepsFlag(outcome) ==
    /\ SplashFrame
    /\ IF isTransitioning
       THEN /\ op' = NavOp("startFromSplash", "")
            /\ UNCHANGED <<navVarsButOp, trail, backs, timers, isTransitioning>>
       ELSE /\ op' = NavOp("startFromSplash", "scenarioSelect")
            /\ isTransitioning' = TRUE
            /\ IF outcome = "returns"
               THEN /\ SetNav(showScreen(Nav, "scenarioSelect"))
                    /\ IF "scenarioSelect" \in dom /\ currentScreen # "scenarioSelect"
                       THEN Forward("scenarioSelect") ELSE Restart
                    /\ timers' = Append(timers, Timer("reset", ResetDelay, "", <<>>, 0))
               ELSE UNCHANGED <<navVarsButOp, trail, backs, timers>>

StartFromSplash(outcome) ==
    /\ SplashFrame
    /\ IF isTransitioning
       THEN /\ op' = NavOp("startFromSplash", "")
            /\ UNCHANGED <<navVarsButOp, trail, backs, timers, isTransitioning>>
       ELSE /\ op' = NavOp("startFromSplash", "scenarioSelect")
            /\ IF outcome = "returns"
               THEN /\ isTransitioning' = TRUE
                    /\ SetNav(showScreen(Nav, "scenarioSelect"))
                    /\ IF "scenarioSelect" \in dom /\ currentScreen # "scenarioSelect"
                       THEN Forward("scenarioSelect") ELSE Restart
                    /\ timers' = Append(timers, Timer("reset", ResetDelay, "", <<>>, 0))
               ELSE /\ isTransitioning' = FALSE
                    /\ UNCHANGED <<navVarsButOp, trail, backs, timers>>

\* startFromSplash, callback: isTransitioning = false
ResetFires ==
    /\ Due # {}
    /\ T.kind = "reset"
    /\ isTransitioning' = FALSE
    /\ timers' = Without(timers, FirstDue)
    /\ op' = ChatOp("reset", "", 0, T.sess)
    /\ NavUnchanged
    /\ SplashFrame

(***************************************************************************)
(* DocumentOCR: initialize() and recognizeDocument(file).  A call runs     *)
(* up to its next await; the awaited operation settles later, with "ok"    *)
(* or with an error, and the call runs on from there.                     *)
(***************************************************************************)
Errors == {"error.a", "error.b"}
Outcomes == {"ok"} \cup Errors
TypeError == "TypeError: this.worker is null"
OcrFiles == {"scan1.png", "scan2.png"}
NoFile == "none"

Call(method, file, pc, w) ==
    [ method |-> method, file |-> file, pc |-> pc, w |-> w, used |-> 0,
      thrown |-> "none", rejection |-> "none" ]

\* catch (error) { ...; throw error; }
Rejected(call, error) ==
    [ call EXCEPT !.pc = "rejected", !.thrown = error, !.rejection = error ]

OcrFrame == UNCHANGED <<pageVars, textVars, matchVars, bat>>

\* initialize(), up to 'await Tesseract.createWorker(...)'
Initialize ==
    /\ OcrFrame
    /\ IF isInitialized
       THEN /\ calls' = Append(calls, Call("initialize", NoFile, "resolved", 0))
            /\ UNCHANGED createWorkerCalls
       ELSE /\ calls' = Append(calls, Call("initialize", NoFile, "createWorker",
                                            createWorkerCalls + 1))
            /\ createWorkerCalls' = createWorkerCalls + 1
    /\ UNCHANGED <<worker, isInitialized, recognizedDocuments, loadingIndicator>>

\* recognizeDocument(file), up to its first await: of initialize(), which has
\* run up to createWorker, or of preprocessImage(file)
RecognizeDocument(file) ==
    /\ OcrFrame
    /\ IF ~isInitialized
       THEN /\ calls' = Append(calls, Call("recognizeDocument", file, "createWorker",
                                            createWorkerCalls + 1))
            /\ createWorkerCalls' = createWorkerCalls + 1
            /\ UNCHANGED loadingIndicator
       ELSE /\ calls' = Append(calls, Call("recognizeDocument", file,
                                            "preprocessImage", 0))
            /\ loadingIndicator' = TRUE
            /\ UNCHANGED createWorkerCalls
    /\ UNCHANGED <<worker, isInitialized, recognizedDocuments>>

\* createWorker settles: this.worker = ...; await this.worker.setParameters(...)
CreateWorkerSettles(c, outcome) ==
    /\ OcrFrame
    /\ calls[c].pc = "createWorker"
    /\ IF outcome = "ok"
       THEN /\ worker' = calls[c].w
            /\ calls' = [ calls EXCEPT ![c].pc = "setParameters" ]
       ELSE /\ calls' = [ calls EXCEPT ![c] = Rejected(@, outcome) ]
            /\ UNCHANGED worker
    /\ UNCHANGED <<isInitialized, recognizedDocuments, loadingIndicator,
                   createWorkerCalls>>

\* setParameters settles: this.isInitialized = true, and initialize() returns
SetParametersSettles(c, outcome) ==
    /\ OcrFrame
    /\ calls[c].pc = "setParameters"
    /\ IF outcome = "ok"
       THEN /\ isInitialized' = TRUE
            /\ calls' = [ calls EXCEPT ![c].pc = IF calls[c].method = "initialize"
                                                 THEN "resolved" ELSE "initialized" ]
       ELSE /\ calls' = [ calls EXCEPT ![c] = Rejected(@, outcome) ]
            /\ UNCHANGED isInitialized
    /\ UNCHANGED <<worker, recognizedDocuments, loadingIndicator, createWorkerCalls>>

\* recognizeDocument goes on after 'await this.initialize()':
\* showLoadingIndicator(); await this.preprocessImage(file)
InitializeReturns(c) ==
    /\ OcrFrame
    /\ calls[c].pc = "initialized"
    /\ loadingIndicator' = TRUE
    /\ calls' = [ calls EXCEPT ![c].pc = "preprocessImage" ]
    /\ UNCHANGED <<worker, isInitialized, recognizedDocuments, createWorkerCalls>>

\* preprocessImage settles: await this.worker.recognize(processedImage)
PreprocessImageSettles(c, outcome) ==
    /\ OcrFrame
    /\ calls[c].pc = "preprocessImage"
    /\ IF outcome = "ok" /\ worker # 0
       THEN /\ calls' = [ calls EXCEPT ![c].pc = "recognize", ![c].used = worker ]
            /\ UNCHANGED loadingIndicator
       ELSE /\ calls' = [ calls EXCEPT ![c] =
                             Rejected(@, IF outcome = "ok" THEN TypeError ELSE outcome) ]
            /\ loadingIndicator' = FALSE
    /\ UNCHANGED <<worker, isInitialized, recognizedDocuments, createWorkerCalls>>

Document(call) == [ fileName |-> call.file, worker |-> call.used ]

RecognizeSettlesKeepsFailedDocument(c, outcome) ==
    /\ OcrFrame
    /\ calls[c].pc = "recognize"
    /\ recognizedDocuments' = Append(recognizedDocuments, Document(calls[c]))
    /\ calls' = IF outcome = "ok"
                THEN [ calls EXCEPT ![c].pc = "resolved" ]
                ELSE [ calls EXCEPT ![c] = Rejected(@, outcome) ]
    /\ loadingIndicator' = FALSE
    /\ UNCHANGED <<worker, isInitialized, createWorkerCalls>>

\* recognize settles: the document is built and pushed, or the error rethrown
RecognizeSettles(c, outcome) ==
    /\ OcrFrame
    /\ calls[c].pc = "recognize"
    /\ IF outcome = "ok"
       THEN /\ recognizedDocuments' = Append(recognizedDocuments, Document(calls[c]))
            /\ calls' = [ calls EXCEPT ![c].pc = "resolved" ]
       ELSE /\ calls' = [ calls EXCEPT ![c] = Rejected(@, outcome) ]
            /\ UNCHANGED recognizedDocuments
    /\ loadingIndicator' = FALSE
    /\ UNCHANGED <<worker, isInitialized, createWorkerCalls>>

(***************************************************************************)
(* cleanup(): a call that finds a worker awaits its terminate().           *)
(***************************************************************************)
Cleanup ==
    /\ OcrFrame
    /\ calls' = Append(calls, Call("cleanup", NoFile,
                                   IF worker # 0 THEN "terminate" ELSE "resolved", 0))
    /\ UNCHANGED <<worker, isInitialized, recognizedDocuments, loadingIndicator,
                   createWorkerCalls>>

\* terminate settles: this.worker = null; this.isInitialized = false; a
\* rejection leaves cleanup() without a handler
TerminateSettles(c, outcome) ==
    /\ OcrFrame
    /\ calls[c].pc = "terminate"
    /\ IF outcome = "ok"
       THEN /\ worker' = 0
            /\ isInitialized' = FALSE
            /\ calls' = [ calls EXCEPT ![c].pc = "resolved" ]
       ELSE /\ calls' = [ calls EXCEPT ![c].pc = "rejected", ![c].rejection = outcome ]
            /\ UNCHANGED <<worker, isInitialized>>
    /\ UNCHANGED <<recognizedDocuments, loadingIndicator, createWorkerCalls>>

(***************************************************************************)
(* Texts are sequences of one-character strings.  The character classes    *)
(* of the regular expressions, over the characters the texts are made of.  *)
(***************************************************************************)
Numero == "numero sign"           \* the character U+2116
Bullet == "bullet"                \* the character U+2022
Digits == {"0", "1", "2", "3", "4", "5", "6", "7", "8", "9"}      \* \d
Whitespace == {" ", "\n", "\t"}                                   \* \s
NumberChars == Digits \cup {"/", "-"}                             \* [\d\/\-]
ListChars == Digits \cup {Bullet, "-"}                            \* [U+2022\-\d]
UpperCase == {"A", "B", "Z", "cyrillic A", "cyrillic YA"}         \* [U+0410-U+042F A-Z]

Number123 == <<Numero, " ", "1", "2", "3">>
Date0102 == <<"0", "1", ".", "0", "2", ".", "2", "0", "2", "3">>

Fragments == { Number123, Date0102, <<Numero>>, <<" ">>, <<"4">>, <<"-">>, <<"/">>,
               <<".">>, <<"x">>, <<"A">>, <<Bullet>> }

RECURSIVE TextsOf(_)
TextsOf(n) ==
    IF n = 0 THEN { <<>> }
    ELSE LET shorter == TextsOf(n - 1)
         IN  shorter \cup { t \o f : t \in shorter, f \in Fragments }

Texts == TextsOf(MaxFragments)

Null == <<"null">>

\* the end of the longest run of characters of a class that starts at i
\* (i - 1 when text[i] is not of the class): what a greedy X* consumes
RECURSIVE RunEnd(_, _, _)
RunEnd(str, i, class) ==
    IF i <= Len(str) /\ str[i] \in class THEN RunEnd(str, i + 1, class) ELSE i - 1

\* \d{2}\.\d{2}\.\d{4} matched at position i
DateAt(str, i) ==
    /\ i + 9 <= Len(str)
    /\ \A k \in {0, 1, 3, 4, 6, 7, 8, 9} : str[i + k] \in Digits
    /\ \A k \in {2, 5} : str[i + k] = "."

\* No\s*(\d+[\d\/\-]*) matched at position i: the position of the first digit,
\* or 0 when there is no match at i
NumberAt(str, i) ==
    IF str[i] # Numero THEN 0
    ELSE LET j == RunEnd(str, i + 1, Whitespace) + 1
         IN  IF j <= Len(str) /\ str[j] \in Digits THEN j ELSE 0

\* String.prototype.match without the g flag: the leftmost match
First(positions) == CHOOSE i \in positions : \A j \in positions : i <= j

docNumberDigitsOnly(str) ==
    LET found == { i \in 1..Len(str) : NumberAt(str, i) # 0 }
        j == NumberAt(str, First(found))
    IN  IF found = {} THEN Null ELSE SubSeq(str, j, RunEnd(str, j, Digits))

docNumber(str) ==
    LET found == { i \in 1..Len(str) : NumberAt(str, i) # 0 }
        j == NumberAt(str, First(found))
    IN  IF found = {} THEN Null ELSE SubSeq(str, j, RunEnd(str, j, NumberChars))

docDate(str) ==
    LET found == { i \in 1..Len(str) : DateAt(str, i) }
    IN  IF found = {} THEN Null ELSE SubSeq(str, First(found), First(found) + 9)

\* extractMetadata(text): the document number and the document date.  The
\* fields organization, docType, persons and keywords are computed from the
\* text alone, each by its own pattern, and are not part of the record.
extractMetadata(str) ==
    [ docNumber |-> docNumber(str), docDate |-> docDate(str) ]

\* detectBlockType(text)
UpperCaseCount(str) == Cardinality({ i \in 1..Len(str) : str[i] \in UpperCase })

\* (count / length) > 0.7, in tenths
MostlyUpperCase(str) == 10 * UpperCaseCount(str) > 7 * Len(str)

\* ^[U+2022\-\d]+\.
StartsList(str) ==
    LET e == RunEnd(str, 1, ListChars)
    IN  e >= 1 /\ e + 1 <= Len(str) /\ str[e + 1] = "."

\* ^No\s*\d+
StartsNumber(str) == Len(str) >= 1 /\ NumberAt(str, 1) # 0

detectBlockType(str) ==
    IF str = <<>> THEN "paragraph"
    ELSE IF MostlyUpperCase(str) THEN "heading"
    ELSE IF StartsList(str) THEN "list"
    ELSE IF DateAt(str, 1) THEN "date"
    ELSE IF StartsNumber(str) THEN "number"
    ELSE "paragraph"

TextFrame == UNCHANGED <<pageVars, ocrVars, matchVars, bat, docText>>

ExtractMetadata ==
    /\ metadata' = extractMetadata(docText)
    /\ UNCHANGED blockType
    /\ TextFrame

DetectBlockType ==
    /\ blockType' = detectBlockType(docText)
    /\ UNCHANGED metadata
    /\ TextFrame

(***************************************************************************)
(* calculateRelevanceScore and matchQuestionsToDocument.  A Cyrillic       *)
(* letter is written as one Latin letter, so that a word keeps its length; *)
(* a score is counted in units of 0.05, in which the weights 0.2, 0.25,    *)
(* 0.3, the threshold 0.3 and the maximum 1.0 are whole numbers.           *)
(***************************************************************************)
KeywordWeight == 4            \* 0.2, a question keyword found in the text
OrganizationWeight == 6       \* 0.3
DocTypeWeight == 4            \* 0.2
DocDateWeight == 6            \* 0.3
DocKeywordWeight == 5         \* 0.25, a document keyword found in the question
MaxScore == 20                \* 1.0
Threshold == 6                \* 0.3
MinKeywordLength == 3         \* word.length > 3

Organization == <<"o", "r", "g", "a", "n", "i", "z", "a", "c", "i", "a">>
DocumentWord == <<"d", "o", "k", "u", "m", "e", "n", "t">>
DateWord == <<"d", "a", "t", "a">>

stopWords == << <<"e", "s", "t", "j">>, <<"l", "i">>, <<"k", "a", "k", "i", "e">>, <<"c", "t", "o">>, <<"k", "a", "k">>, <<"k", "o", "g", "d", "a">>, <<"g", "d", "e">>, <<"k", "t", "o">>, <<"p", "o", "c", "e", "m", "u">>, <<"z", "a", "c", "e", "m">> >>

UpperLetters == <<"A", "D", "I", "K", "O", "P", "R", "Z">>
LowerLetters == <<"a", "d", "i", "k", "o", "p", "r", "z">>

ToLower(c) ==
    LET at == { i \in 1..Len(UpperLetters) : UpperLetters[i] = c }
    IN  IF at = {} THEN c ELSE LowerLetters[CHOOSE i \in at : TRUE]

toLowerCase(str) == [ i \in 1..Len(str) |-> ToLower(str[i]) ]

includes(str, sub) ==
    \E i \in 0..(Len(str) - Len(sub)) : SubSeq(str, i + 1, i + Len(sub)) = sub

\* question.split(/\s+/): the pieces between runs of white space
RECURSIVE split(_)
split(str) ==
    LET gaps == { i \in 1..Len(str) : str[i] \in Whitespace }
        g == First(gaps)
    IN  IF gaps = {} THEN <<str>>
        ELSE <<SubSeq(str, 1, g - 1)>>
                 \o split(SubSeq(str, RunEnd(str, g, Whitespace) + 1, Len(str)))

InList(list, word) == \E i \in 1..Len(list) : list[i] = word

IsKeyword(word) ==
    /\ Len(word) > MinKeywordLength
    /\ ~InList(stopWords, word)
    /\ ~(Len(word) = 1 /\ word[1] \in {".", ",", "!", "?", ";", ":"})

extractKeywords(question) == SelectSeq(split(question), IsKeyword)

\* the sum of weight over the entries of list that satisfy the test
RECURSIVE Sum(_, _, _)
Sum(list, Test(_), weight) ==
    IF list = <<>> THEN 0
    ELSE (IF Test(list[1]) THEN weight ELSE 0) + Sum(Tail(list), Test, weight)

NoMetadataField == <<>>       \* null

rawScore(question, document) ==
    LET questionLower == toLowerCase(question)
        textLower == toLowerCase(document.processedText)
        InText(keyword) == includes(textLower, keyword)
        InQuestion(keyword) == includes(questionLower, keyword)
        m == document.metadata
    IN  Sum(extractKeywords(questionLower), InText, KeywordWeight)
        + (IF document.hasMetadata
           THEN (IF includes(questionLower, Organization) /\ m.organization # NoMetadataField
                 THEN OrganizationWeight ELSE 0)
                + (IF includes(questionLower, DocumentWord) /\ m.docType # NoMetadataField
                   THEN DocTypeWeight ELSE 0)
                + (IF includes(questionLower, DateWord) /\ m.docDate # NoMetadataField
                   THEN DocDateWeight ELSE 0)
                + Sum(m.keywords, InQuestion, DocKeywordWeight)
           ELSE 0)

calculateRelevanceScoreUnclamped(question, document) == rawScore(question, document)

calculateRelevanceScore(question, document) ==
    IF rawScore(question, document) < MaxScore
    THEN rawScore(question, document) ELSE MaxScore

\* Array.prototype.sort((a, b) => b.relevanceScore - a.relevanceScore): the
\* entries in descending order of score, entries of equal score in the
\* order they had
RECURSIVE sortDescending(_)
sortDescending(list) ==
    IF list = <<>> THEN <<>>
    ELSE LET sorted == sortDescending(Front(list))
             x == Last(list)
             ahead == { i \in 1..Len(sorted) : sorted[i].relevanceScore >= x.relevanceScore }
             n == IF ahead = {} THEN 0 ELSE CHOOSE i \in ahead : \A j \in ahead : i >= j
         IN  SubSeq(sorted, 1, n) \o <<x>> \o SubSeq(sorted, n + 1, Len(sorted))

Match(question, document) ==
    [ question |-> question,
      relevanceScore |-> calculateRelevanceScore(question, document),
      confidence |-> document.confidence,
      source |-> [ fileName |-> document.fileName, documentId |-> document.id ] ]

\* the matches pushed by the loop, in the order of the questions; the field
\* answer (extractAnswer) is a text of its own and is not part of the record
RECURSIVE relevant(_, _)
relevant(document, questions) ==
    IF questions = <<>> THEN <<>>
    ELSE (IF calculateRelevanceScore(questions[1], document) > Threshold
          THEN <<Match(questions[1], document)>> ELSE <<>>)
         \o relevant(document, Tail(questions))

matchQuestionsToDocument(document, questions) ==
    sortDescending(relevant(document, questions))

\* Documents as recognizeDocument builds them, the metadata being those of
\* the text, and a document that has no metadata.
AuditWord == <<"a", "u", "d", "i", "t">>
RepairWord == <<"r", "e", "m", "o", "n", "t">>

Documents ==
    { [ id |-> 1, fileName |-> "order.png", confidence |-> 90, hasMetadata |-> TRUE,
        processedText |-> <<"O", "O", "O", " ", "r", "o", "m", "a", "s", "k", "a", " ", "0", "1", ".", "0", "2", ".", "2", "0", "2", "3">>,
        metadata |-> [ organization |-> <<"r", "o", "m", "a", "s", "k", "a", " ", "0", "1", ".", "0", "2", ".", "2", "0", "2", "3">>, docType |-> NoMetadataField,
                       docDate |-> Date0102, keywords |-> <<>> ] ],
      [ id |-> 2, fileName |-> "audit.png", confidence |-> 80, hasMetadata |-> TRUE,
        processedText |-> <<"P", "R", "I", "K", "A", "Z", " ", "O", "O", "O", " ", "r", "o", "m", "a", "s", "k", "a", " ", "0", "1", ".", "0", "2", ".", "2", "0", "2", "3", " ", "a", "u", "d", "i", "t", " ", "r", "e", "m", "o", "n", "t">>,
        metadata |-> [ organization |-> <<"r", "o", "m", "a", "s", "k", "a", " ", "0", "1", ".", "0", "2", ".", "2", "0", "2", "3", " ", "a", "u", "d", "i", "t", " ", "r", "e", "m", "o", "n", "t">>, docType |-> <<"P", "R", "I", "K", "A", "Z">>,
                       docDate |-> Date0102, keywords |-> <<AuditWord, RepairWord>> ] ],
      [ id |-> 3, fileName |-> "note.png", confidence |-> 70, hasMetadata |-> TRUE,
        processedText |-> <<"a", "u", "d", "i", "t", " ", "z", "a", "v", "t", "r", "a">>,
        metadata |-> [ organization |-> NoMetadataField, docType |-> NoMetadataField,
                       docDate |-> NoMetadataField, keywords |-> <<AuditWord>> ] ],
      [ id |-> 4, fileName |-> "blank.png", confidence |-> 0, hasMetadata |-> FALSE,
        processedText |-> <<>>,
        metadata |-> [ organization |-> NoMetadataField, docType |-> NoMetadataField,
                       docDate |-> NoMetadataField, keywords |-> <<>> ] ] }

QuestionInputs ==
    { <<"d", "a", "t", "a">>,
      <<"k", "a", "k", "i", "e", " ", "a", "u", "d", "i", "t">>,
      <<"O", "r", "g", "a", "n", "i", "z", "a", "c", "i", "a", " ", "D", "o", "k", "u", "m", "e", "n", "t", " ", "D", "a", "t", "a", " ", "a", "u", "d", "i", "t", " ", "r", "e", "m", "o", "n", "t">>,
      <<"k", "t", "o">>,
      <<"a", "u", "d", "i", "t", " ", " ", "a", "u", "d", "i", "t">>,
      <<"d", "o", "k", "u", "m", "e", "n", "t">> }

RECURSIVE ListsOf(_, _)
ListsOf(set, n) ==
    IF n = 0 THEN { <<>> }
    ELSE LET shorter == ListsOf(set, n - 1)
         IN  shorter \cup { Append(l, x) : l \in shorter, x \in set }

NoDocument == [ id |-> 0 ]
NoScore == [ question |-> <<>>, document |-> NoDocument, score |-> -1 ]
NoMatches == [ document |-> NoDocument, questions |-> <<>>, matches |-> <<>>,
               done |-> FALSE ]

MatchIdle ==
    /\ scored = NoScore
    /\ before = NoScore
    /\ matched = NoMatches

MatchFrame == UNCHANGED <<pageVars, ocrVars, textVars, bat>>

CalculateRelevanceScore(question, document) ==
    /\ scored' = [ question |-> question, document |-> document,
                   score |-> calculateRelevanceScore(question, document) ]
    /\ before' = scored
    /\ UNCHANGED matched
    /\ MatchFrame

MatchQuestionsToDocument ==
    /\ matched' = [ matched EXCEPT
                      !.matches = matchQuestionsToDocument(matched.document,
                                                           matched.questions),
                      !.done = TRUE ]
    /\ UNCHANGED <<scored, before>>
    /\ MatchFrame

(***************************************************************************)
(* What the story elements show before generateStory() wrote them.         *)
(***************************************************************************)
StaticTitle == <<"title.static">>
StaticPreview == <<"preview.static">>

NavInit ==
    /\ dom \in DomChoices
    /\ active = {"splash"}
    /\ currentScreen = "splash"
    /\ previousScreens = <<>>
    /\ op = [ name |-> "load", screen |-> "", k |-> 0, sess |-> 0 ]
    /\ trail = <<"splash">>
    /\ backs = 0
    /\ isTransitioning = FALSE

\* the hint of the page: its static text, no inline font weight
StaticHint == [ text |-> [ kind |-> "static", n |-> 0 ], fontWeight |-> "" ]

ChatInit ==
    /\ answered = 0
    /\ isVoiceActive = FALSE
    /\ voiceStarts = 0
    /\ voiceStopped = {}
    /\ userInput = <<>>
    /\ sendButton = FALSE
    /\ storyIndex = 0
    /\ shownStory = -1
    /\ swipeHint = StaticHint
    /\ selectedTheme = "null"
    /\ chatMessages = <<>>
    /\ exchangeCount = 0
    /\ timeCount = 0
    /\ uploadedPhotos = <<>>
    /\ typing = 0
    /\ status = [ set |-> FALSE, progress |-> 0, enabled |-> FALSE ]
    /\ timers = <<>>
    /\ session = 0
    /\ sent = 0
    /\ storyTitle = StaticTitle
    /\ storyPreview = StaticPreview
    /\ wordsCount = 0
    /\ imagesCount = 0
    /\ durationCount = 0
    /\ opened = {}

OcrInit ==
    /\ worker = 0
    /\ isInitialized = FALSE
    /\ recognizedDocuments = <<>>
    /\ loadingIndicator = FALSE
    /\ calls = <<>>
    /\ createWorkerCalls = 0

NotCalled == "not called"
NoMetadata == [ docNumber |-> <<>>, docDate |-> <<>> ]    \* extractMetadata not called

TextIdle ==
    /\ docText = <<>>
    /\ metadata = NoMetadata
    /\ blockType = NotCalled

NotStarted == [ pc |-> "not started", errorlevel |-> 0, expanded |-> 0,
                out |-> <<>>, ran |-> <<>> ]

BatIdle == bat = NotStarted

LibInit == OcrInit /\ TextIdle /\ MatchIdle /\ BatIdle

Init == NavInit /\ ChatInit /\ LibInit

Next ==
    \/ \E screenId \in ScreenIds : ShowScreen(screenId)
    \/ GoBack
    \/ GoToSplash
    \/ GoToScenarios
    \/ BackToWelcome

Spec == Init /\ [][Next]_vars

(***************************************************************************)
(* The chat: repeated theme selection, user messages, photo uploads, the   *)
(* timer callbacks and the one-minute interval, on a page where every      *)
(* screen exists.                                                          *)
(***************************************************************************)
InitChat == Init /\ dom = AllScreens

Room == Len(timers) < MaxPending      \* a further callback may be scheduled

NextChat ==
    \/ /\ session < MaxSessions
       /\ Room
       /\ \E themeId \in ChatThemes : SelectTheme(themeId)
    \/ /\ sent < MaxUserMsgs
       /\ Room
       /\ \E inputValue \in InputValues : SendMessage(inputValue)
    \/ /\ sent < MaxUserMsgs
       /\ Len(uploadedPhotos) < MaxPhotos
       /\ Room
       /\ \E name \in FileNames : HandleFileUpload(name)
    \/ Tick
    \/ OpeningFires
    \/ TipFires
    \/ ReplyFires
    \/ PhotoTypingFires
    \/ PhotoReplyFires
    \/ timeCount < MaxMinutes /\ MinuteFires

SpecChat == InitChat /\ [][NextChat]_vars

(***************************************************************************)
(* One long conversation on one theme: a single theme selection followed   *)
(* by typed messages only, past the end of the theme's question list.      *)
(***************************************************************************)
NextTalk ==
    \/ /\ session = 0
       /\ \E themeId \in ThemeInputs : SelectTheme(themeId)
    \/ /\ session = 1
       /\ sent < MaxTalk
       /\ Room
       /\ \E inputValue \in InputValues : SendMessage(inputValue)
    \/ Tick
    \/ OpeningFires
    \/ TipFires
    \/ ReplyFires

SpecTalk == InitChat /\ [][NextTalk]_vars

(***************************************************************************)
(* Stories: theme selections, typed messages, photo uploads and the end of *)
(* the chat, on a page that also holds the result screen.                  *)
(***************************************************************************)
StoryScreens == AllScreens \cup {"result"}

InitStory ==
    /\ dom = StoryScreens
    /\ active = {"splash"}
    /\ currentScreen = "splash"
    /\ previousScreens = <<>>
    /\ op = [ name |-> "load", screen |-> "", k |-> 0, sess |-> 0 ]
    /\ trail = <<"splash">>
    /\ backs = 0
    /\ isTransitioning = FALSE
    /\ ChatInit
    /\ LibInit

NextStory ==
    \/ /\ session < MaxSessions
       /\ Room
       /\ \E themeId \in ChatThemes : SelectTheme(themeId)
    \/ FinishChat
    \/ /\ sent < MaxUserMsgs
       /\ Room
       /\ \E inputValue \in InputValues : SendMessage(inputValue)
    \/ /\ sent < MaxUserMsgs
       /\ Len(uploadedPhotos) < MaxPhotos
       /\ Room
       /\ \E name \in FileNames : HandleFileUpload(name)
    \/ Tick
    \/ OpeningFires
    \/ TipFires
    \/ ReplyFires
    \/ PhotoTypingFires
    \/ PhotoReplyFires

SpecStory == InitStory /\ [][NextStory]_vars

(***************************************************************************)
(* Themes: selections from the catalog and custom themes, typed messages,  *)
(* photo uploads and every timer callback, in any order; openChat is       *)
(* called once the callbacks scheduled so far have run.                    *)
(***************************************************************************)
NextThemes ==
    \/ /\ session < MaxSessions
       /\ Room
       /\ \E themeId \in ChatThemes : SelectTheme(themeId)
    \/ /\ session < MaxSessions
       /\ Room
       /\ \E customThemeName \in PromptInputs : CustomTheme(customThemeName)
    \/ /\ timers = <<>>
       /\ \E chatId \in ChatIds : OpenChat(chatId)
    \/ /\ sent < MaxUserMsgs
       /\ Room
       /\ \E inputValue \in InputValues : SendMessage(inputValue)
    \/ /\ sent < MaxUserMsgs
       /\ Len(uploadedPhotos) < MaxPhotos
       /\ Room
       /\ \E name \in FileNames : HandleFileUpload(name)
    \/ Tick
    \/ OpeningFires
    \/ CustomOpeningFires
    \/ TipFires
    \/ ReplyFires
    \/ PhotoTypingFires
    \/ PhotoReplyFires

SpecThemes == InitChat /\ [][NextThemes]_vars

(***************************************************************************)
(* Openings: theme selections from the catalog and photo uploads, with     *)
(* the event loop running every callback that is due and time passing      *)
(* while none is.                                                          *)
(***************************************************************************)
NextOpening ==
    \/ /\ session < MaxSessions
       /\ Room
       /\ \E themeId \in ThemeInputs : SelectTheme(themeId)
    \/ /\ Len(uploadedPhotos) < MaxPhotos
       /\ Room
       /\ \E name \in FileNames : HandleFileUpload(name)
    \/ Tick
    \/ OpeningFires
    \/ TipFires
    \/ PhotoTypingFires
    \/ PhotoReplyFires

SpecOpening == InitChat /\ [][NextOpening]_vars

EventLoop ==
    /\ WF_vars(Tick)
    /\ WF_vars(OpeningFires)
    /\ WF_vars(TipFires)
    /\ WF_vars(PhotoTypingFires)
    /\ WF_vars(PhotoReplyFires)

FairOpening == SpecOpening /\ EventLoop

(***************************************************************************)
(* Replies: selections of one theme and typed messages, with the event     *)
(* loop running every callback that is due and time passing while none is. *)
(***************************************************************************)
NextReplies ==
    \/ /\ session < MaxSessions
       /\ Room
       /\ \E themeId \in ChatThemes : SelectTheme(themeId)
    \/ /\ sent < MaxUserMsgs
       /\ Room
       /\ \E inputValue \in InputValues : SendMessage(inputValue)
    \/ Tick
    \/ OpeningFires
    \/ TipFires
    \/ ReplyFires

SpecReplies == InitChat /\ [][NextReplies]_vars

EventLoopOfReplies ==
    /\ WF_vars(Tick)
    /\ WF_vars(OpeningFires)
    /\ WF_vars(TipFires)
    /\ WF_vars(ReplyFires)

FairReplies == SpecReplies /\ EventLoopOfReplies

(***************************************************************************)
(* The splash screen: startFromSplash() among the navigation handlers,     *)
(* with the event loop running its callback when it is due.                *)
(***************************************************************************)
NextSplash ==
    \/ /\ Len(showScreen(Nav, "scenarioSelect").previousScreens) <= MaxHist
       /\ \E outcome \in ShowOutcomes : StartFromSplash(outcome)
    \/ \E screenId \in ScreenIds : ShowScreen(screenId)
    \/ GoBack
    \/ GoToSplash
    \/ BackToWelcome
    \/ Tick
    \/ ResetFires

SpecSplash == Init /\ [][NextSplash]_vars

EventLoopOfSplash ==
    /\ WF_vars(Tick)
    /\ WF_vars(ResetFires)

FairSplash == SpecSplash /\ EventLoopOfSplash

(***************************************************************************)
(* One DocumentOCR instance: calls of initialize() and recognizeDocument() *)
(* made at any time, and their awaited operations settling in any order.   *)
(***************************************************************************)
InitOcr == Init /\ dom = AllScreens

NextOcr ==
    \/ Len(calls) < MaxCalls /\ Initialize
    \/ Len(calls) < MaxCalls /\ \E file \in OcrFiles : RecognizeDocument(file)
    \/ \E c \in 1..Len(calls) : \E outcome \in Outcomes : CreateWorkerSettles(c, outcome)
    \/ \E c \in 1..Len(calls) : \E outcome \in Outcomes : SetParametersSettles(c, outcome)
    \/ \E c \in 1..Len(calls) : InitializeReturns(c)
    \/ \E c \in 1..Len(calls) : \E outcome \in Outcomes : PreprocessImageSettles(c, outcome)
    \/ \E c \in 1..Len(calls) : \E outcome \in Outcomes : RecognizeSettles(c, outcome)

SpecOcr == InitOcr /\ [][NextOcr]_vars

(***************************************************************************)
(* One DocumentOCR instance with cleanup(): calls of initialize(),         *)
(* recognizeDocument() and cleanup() made at any time.                     *)
(***************************************************************************)
NextCleanup ==
    \/ Len(calls) < MaxCalls /\ Initialize
    \/ Len(calls) < MaxCalls /\ \E file \in OcrFiles : RecognizeDocument(file)
    \/ Len(calls) < MaxCalls /\ Cleanup
    \/ \E c \in 1..Len(calls) : \E outcome \in Outcomes : CreateWorkerSettles(c, outcome)
    \/ \E c \in 1..Len(calls) : \E outcome \in Outcomes : SetParametersSettles(c, outcome)
    \/ \E c \in 1..Len(calls) : InitializeReturns(c)
    \/ \E c \in 1..Len(calls) : \E outcome \in Outcomes : PreprocessImageSettles(c, outcome)
    \/ \E c \in 1..Len(calls) : \E outcome \in Outcomes : RecognizeSettles(c, outcome)
    \/ \E c \in 1..Len(calls) : \E outcome \in Outcomes : TerminateSettles(c, outcome)

SpecCleanup == InitOcr /\ [][NextCleanup]_vars

(***************************************************************************)
(* The text functions of DocumentOCR, applied to a text put together from  *)
(* at most MaxFragments pieces.                                            *)
(***************************************************************************)
InitText ==
    /\ NavInit /\ dom = AllScreens
    /\ ChatInit
    /\ OcrInit
    /\ MatchIdle
    /\ BatIdle
    /\ docText \in Texts
    /\ metadata = NoMetadata
    /\ blockType = NotCalled

NextText ==
    \/ ExtractMetadata
    \/ DetectBlockType

SpecText == InitText /\ [][NextText]_vars

(***************************************************************************)
(* calculateRelevanceScore, called again and again with a question and a   *)
(* document; matchQuestionsToDocument, called with a document and at most  *)
(* MaxQuestions questions.                                                 *)
(***************************************************************************)
InitScore == Init /\ dom = AllScreens

InitMatch ==
    /\ NavInit /\ dom = AllScreens
    /\ ChatInit
    /\ OcrInit
    /\ TextIdle
    /\ BatIdle
    /\ scored = NoScore
    /\ before = NoScore
    /\ \E document \in Documents : \E questions \in ListsOf(QuestionInputs, MaxQuestions) :
           matched = [ document |-> document, questions |-> questions,
                       matches |-> <<>>, done |-> FALSE ]

NextScore ==
    \E question \in QuestionInputs : \E document \in Documents :
        CalculateRelevanceScore(question, document)

SpecScore == InitScore /\ [][NextScore]_vars

NextMatch == MatchQuestionsToDocument

SpecMatch == InitMatch /\ [][NextMatch]_vars

(***************************************************************************)
(* Claims about the screen navigator, checked under Spec.                  *)
(***************************************************************************)

\* C1: after any handler has called showScreen(id) for an id whose screen
\* element exists, the target screen is active and no other screen is.
C1_ExactlyTargetActive ==
    op.screen \in dom => active = {op.screen}

C1_Witness ==
    /\ op.name = "showScreen"
    /\ op.screen = "chat"
    /\ active = {"chat"}
    /\ Len(previousScreens) >= 2

\* C2: after the forward navigations s0 -> s1 -> ... -> sN (trail), the k-th
\* goBack() in a row (backs = k, 1 <= k <= N) makes s(N-k) the current screen.
C2_BackUnwindsVisitOrder ==
    backs >= 1 => currentScreen = trail[Len(trail) - backs]

\* C3: goBack() called with an empty history makes 'welcome' the current
\* and the only active screen, when the 'welcome' screen exists.
C3_GoBackEmptyHistoryShowsWelcome ==
    (op.name = "goBack" /\ op.k = 0 /\ "welcome" \in dom)
        => (currentScreen = "welcome" /\ active = {"welcome"})

C3_Witness ==
    /\ op.name = "goBack"
    /\ op.k = 0
    /\ "welcome" \in dom
    /\ previousScreens = <<"scenarioSelect">>

\* C4: showScreen(id) for an existing screen pushes exactly the old current
\* screen and makes id current when id differs from the current screen, and
\* leaves history and current screen as they are when id is the current one.
C4_ShowScreenHistoryFrame ==
    [][ (op'.name = "showScreen" /\ op'.screen \in dom)
          => IF op'.screen # currentScreen
             THEN /\ previousScreens' = Append(previousScreens, currentScreen)
                  /\ currentScreen' = op'.screen
             ELSE UNCHANGED <<previousScreens, currentScreen>> ]_vars

C4_Witness ==
    /\ op.name = "showScreen"
    /\ op.k = 2
    /\ op.screen = "welcome"
    /\ previousScreens = <<"splash", "scenarioSelect", "chat">>
    /\ currentScreen = "welcome"

\* C5: showScreen(id) for an id without a screen element changes neither the
\* current screen, nor the history, nor the set of active screens.
C5_MissingIdIgnored ==
    [][ (op'.name = "showScreen" /\ op'.screen \notin dom)
          => UNCHANGED <<currentScreen, previousScreens, active>> ]_vars

\* C6: the current screen and every entry of the history name an existing
\* screen, in every reachable state.
C6_ScreenIdsExist ==
    /\ currentScreen \in dom
    /\ \A i \in 1..Len(previousScreens) : previousScreens[i] \in dom

C6_Witness ==
    /\ op.name = "showScreen"
    /\ op.screen \notin dom
    /\ Len(previousScreens) >= 2

(***************************************************************************)
(* Claims about the scripted chat.                                         *)
(***************************************************************************)
Questions == themes[selectedTheme].questions

LastText == Last(chatMessages).text

Acks == { responses[i] : i \in 1..Len(responses) }

\* C7: right after selectTheme(id), exchangeCount is 0, chatMessages is
\* empty and timeCount is 0, whatever the chat held before (SpecChat).
C7_SelectThemeResetsChat ==
    op.name = "selectTheme"
        => (exchangeCount = 0 /\ chatMessages = <<>> /\ timeCount = 0)

C7_Witness ==
    /\ op.name = "selectTheme"
    /\ session = 2
    /\ sent >= 2
    /\ status.progress > 0
    /\ exchangeCount = 0

\* C8: within one theme session the reply to the K-th user message
\* (1 <= K < number of questions) is an acknowledgement followed by
\* questions[K], whenever the reply timers fire (SpecChat).
C8_ReplyCarriesKthQuestion ==
    ( /\ op.name = "respondToUser"
      /\ op.sess = session
      /\ selectedTheme \in DOMAIN themes
      /\ op.k >= 1
      /\ op.k < Len(Questions) )
        => \E a \in Acks : LastText = <<a, Questions[op.k + 1]>>

AllQuestions ==
    UNION { { themes[t].questions[i] : i \in 1..Len(themes[t].questions) }
            : t \in DOMAIN themes }

CarriesQuestion(m) == m.type = "nadi" /\ Last(m.text) \in AllQuestions

Asked == SelectSeq(chatMessages, CarriesQuestion)

C10_QuestionsInListOrder ==
    (session = 1 /\ sent = exchangeCount)
        => /\ Len(Asked) <= Len(Questions)
           /\ \A i \in 1..Len(Asked) : Last(Asked[i].text) = Questions[i]

(***************************************************************************)
(* Claims about the exchange counter, checked under SpecThemes.            *)
(***************************************************************************)
ThemeResets == {"selectTheme", "customTheme"}

\* C11, as stated: no operation and no timer callback of the app lowers
\* exchangeCount.
C11_CounterNeverDecreases ==
    [][exchangeCount' >= exchangeCount]_vars

\* C11, amended: exchangeCount is lowered only by selectTheme() and by a
\* customTheme() that was given a name, which set it to 0; every other
\* operation and every timer callback leaves it as it is or adds one.
C11_CounterLoweredOnlyByThemeReset ==
    [][ \/ exchangeCount' \in {exchangeCount, exchangeCount + 1}
        \/ /\ op'.name \in ThemeResets
           /\ session' = session + 1
           /\ exchangeCount' = 0 ]_vars

C11_Witness ==
    /\ op.name \in ThemeResets
    /\ sent > 0
    /\ exchangeCount = 0

\* C12: in every reachable state exchangeCount is the number of entries of
\* chatMessages whose type is 'user'.
C12_CountIsNumberOfUserEntries ==
    exchangeCount = Len(SelectSeq(chatMessages, IsUser))

C12_Witness ==
    /\ session = 2
    /\ exchangeCount = 2
    /\ Len(chatMessages) > exchangeCount

(***************************************************************************)
(* Claims about the opening of a theme, checked under FairOpening.         *)
(***************************************************************************)
Selected(s, themeId) ==
    /\ op = ChatOp("selectTheme", "chat", 0, s)
    /\ selectedTheme = themeId

OpeningAppended(s, themeId) ==
    /\ op = ChatOp("opening", "", 0, s)
    /\ LastText = <<OpeningPrefix, themes[themeId].questions[1]>>

TipAppended(s) ==
    /\ op = ChatOp("tip", "", 0, s)
    /\ LastText = <<TipLine>>

TipAfterOpening ==
    /\ \A i \in 1..Len(timers) : timers[i].kind = "tip" => timers[i].sess \in opened
    /\ op.name = "tip" => op.sess \in opened

\* C13: after selectTheme(T) the opening message with themes[T].questions[0]
\* is eventually appended and after it the photo tip of the same selection;
\* a tip is never appended, nor scheduled, before the opening message of its
\* selection.
C13_OpeningThenTip ==
    /\ \A s \in 1..MaxSessions : \A themeId \in ThemeInputs :
           Selected(s, themeId) ~> OpeningAppended(s, themeId)
    /\ \A s \in 1..MaxSessions : \A themeId \in ThemeInputs :
           OpeningAppended(s, themeId) ~> TipAppended(s)
    /\ []TipAfterOpening

C13_Witness ==
    /\ TipAppended(session)
    /\ session = MaxSessions
    /\ \E i \in 1..Len(chatMessages) :
           chatMessages[i].text = <<OpeningPrefix, themes[selectedTheme].questions[1]>>

(***************************************************************************)
(* Claims about the story, checked under SpecStory.                        *)
(***************************************************************************)
CurrentUserText == Join(UserTexts(chatMessages), " ")

\* C14: after generateStory() the preview shows the first 200 characters of
\* the space-joined texts of the 'user' entries of the current chat, also
\* when the current chat has no user message yet.  A preview that
\* generateStory() has not written since the page was loaded is left out
\* of the comparison.
C14_PreviewFromCurrentChat ==
    (op.name = "finishChat" /\ storyPreview # StaticPreview)
        => storyPreview = PreviewMarkup(Substring(CurrentUserText, 0, PreviewLength))

(***************************************************************************)
(* Claims about the DocumentOCR instance, checked under SpecOcr.           *)
(***************************************************************************)
Recognitions == { c \in 1..Len(calls) : calls[c].used # 0 }

\* C15: whatever the order of the initialize() and recognizeDocument() calls
\* and of their awaits, Tesseract.createWorker is called at most once and
\* every recognition runs on the worker of that one call.
C15_WorkerCreatedOnce ==
    /\ createWorkerCalls <= 1
    /\ \A c \in Recognitions : calls[c].used = 1

Settled(c) == calls[c].pc # calls'[c].pc /\ calls'[c].pc \in {"resolved", "rejected"}

IsPrefix(s, t) == Len(s) <= Len(t) /\ SubSeq(t, 1, Len(s)) = s

\* C16: a recognizeDocument call whose initialisation, preprocessing or
\* recognition fails is rejected with the error of the failed operation and
\* leaves recognizedDocuments as it was; a call that succeeds appends exactly
\* one document, for its file; no step removes a document.
C16_FailureLeavesDocuments ==
    [][ /\ IsPrefix(recognizedDocuments, recognizedDocuments')
        /\ Len(calls') >= Len(calls)
        /\ \A c \in 1..Len(calls) :
              (Settled(c) /\ calls[c].method = "recognizeDocument") =>
                  IF calls'[c].pc = "rejected"
                  THEN /\ recognizedDocuments' = recognizedDocuments
                       /\ calls'[c].thrown \in Errors
                       /\ calls'[c].rejection = calls'[c].thrown
                  ELSE /\ Len(recognizedDocuments') = Len(recognizedDocuments) + 1
                       /\ Last(recognizedDocuments').fileName = calls[c].file ]_vars

C16_Witness ==
    /\ Len(recognizedDocuments) = 1
    /\ \E c \in 1..Len(calls) : /\ calls[c].method = "recognizeDocument"
                                 /\ calls[c].pc = "rejected"
                                 /\ calls[c].thrown \in Errors
    /\ \E c \in 1..Len(calls) : /\ calls[c].method = "recognizeDocument"
                                 /\ calls[c].pc = "resolved"

(***************************************************************************)
(* Claims about the text functions, checked under SpecText.                *)
(***************************************************************************)
Includes(str, sub) ==
    \E i \in 0..(Len(str) - Len(sub)) : SubSeq(str, i + 1, i + Len(sub)) = sub

\* C17, as stated: for every text that contains 'No 123' and '01.02.2023'
\* extractMetadata returns docNumber '123' and docDate '01.02.2023'.
C17_AnyTextWithNumberAndDate ==
    (metadata # NoMetadata /\ Includes(docText, Number123) /\ Includes(docText, Date0102))
        => /\ metadata.docNumber = <<"1", "2", "3">>
           /\ metadata.docDate = Date0102

\* the 'No' signs that are followed, after any white space, by a digit
NumberSigns ==
    { i \in 1..Len(docText) :
        /\ docText[i] = Numero
        /\ \E j \in (i + 1)..Len(docText) :
               /\ docText[j] \in Digits
               /\ \A k \in (i + 1)..(j - 1) : docText[k] \in Whitespace }

FirstDigitAfter(i) == CHOOSE j \in (i + 1)..Len(docText) : \A k \in (i + 1)..j :
                          (docText[k] \in Digits) <=> (k = j)

\* the digits, '/' and '-' from position j up to the first other character
NumberRun(j) ==
    LET ends == { e \in j..Len(docText) :
                    /\ \A k \in j..e : docText[k] \in NumberChars
                    /\ e = Len(docText) \/ docText[e + 1] \notin NumberChars }
    IN  SubSeq(docText, j, CHOOSE e \in ends : TRUE)

DateStarts == { i \in 1..Len(docText) : DateAt(docText, i) }

StartsAt(sub, i) ==
    /\ i + Len(sub) - 1 <= Len(docText)
    /\ SubSeq(docText, i, i + Len(sub) - 1) = sub

\* C17, amended: docNumber is the run of digits, '/' and '-' that starts at
\* the first digit after the first 'No' followed (after any white space) by
\* a digit, and docDate is the first dd.mm.yyyy match; both are null when
\* there is no such 'No' or no such match.  So a text gives '123' and
\* '01.02.2023' when its first such 'No' is the one of 'No 123', the
\* character after '123' is not a digit, '/' or '-', and '01.02.2023' is
\* its first dd.mm.yyyy match.
C17_FirstNumberAndFirstDate ==
    metadata # NoMetadata =>
        /\ metadata.docNumber = IF NumberSigns = {} THEN Null
                                ELSE NumberRun(FirstDigitAfter(First(NumberSigns)))
        /\ metadata.docDate = IF DateStarts = {} THEN Null
                              ELSE SubSeq(docText, First(DateStarts), First(DateStarts) + 9)
        /\ ( /\ NumberSigns # {}
             /\ StartsAt(Number123, First(NumberSigns))
             /\ \/ First(NumberSigns) + 4 = Len(docText)
                \/ docText[First(NumberSigns) + 5] \notin NumberChars
             /\ DateStarts # {}
             /\ StartsAt(Date0102, First(DateStarts)) )
            => /\ metadata.docNumber = <<"1", "2", "3">>
               /\ metadata.docDate = Date0102

C17_Witness ==
    /\ docText = Number123 \o <<" ">> \o Date0102
    /\ metadata = [ docNumber |-> <<"1", "2", "3">>, docDate |-> Date0102 ]

\* C20: a block that is not mostly upper case and starts with a dd.mm.yyyy
\* date is a 'date', one that starts with 'No' and digits is a 'number', one
\* that starts with a bullet or digits followed by '.' (and with no date) is
\* a 'list'; a block with more than 70% upper-case letters is a 'heading';
\* any other block, the empty one included, is a 'paragraph'.
C20_EachPatternClassified ==
    blockType # NotCalled =>
        IF docText = <<>> THEN blockType = "paragraph"
        ELSE IF MostlyUpperCase(docText) THEN blockType = "heading"
        ELSE IF DateAt(docText, 1) THEN blockType = "date"
        ELSE IF StartsNumber(docText) THEN blockType = "number"
        ELSE IF StartsList(docText) THEN blockType = "list"
        ELSE blockType = "paragraph"

(***************************************************************************)
(* Claims about the relevance score, checked under SpecScore.              *)
(***************************************************************************)
\* the conditions a call satisfies, counted by kind
Satisfied(call) ==
    LET questionLower == toLowerCase(call.question)
        textLower == toLowerCase(call.document.processedText)
        keywords == extractKeywords(questionLower)
        m == call.document.metadata
        has == call.document.hasMetadata
    IN  [ inText |-> Cardinality({ i \in 1..Len(keywords) :
                                      includes(textLower, keywords[i]) }),
          organization |-> IF /\ has /\ m.organization # NoMetadataField
                              /\ includes(questionLower, Organization) THEN 1 ELSE 0,
          docType |-> IF /\ has /\ m.docType # NoMetadataField
                         /\ includes(questionLower, DocumentWord) THEN 1 ELSE 0,
          docDate |-> IF /\ has /\ m.docDate # NoMetadataField
                         /\ includes(questionLower, DateWord) THEN 1 ELSE 0,
          inQuestion |-> IF has
                         THEN Cardinality({ i \in 1..Len(m.keywords) :
                                              includes(questionLower, m.keywords[i]) })
                         ELSE 0 ]

NoMore(a, b) == \A kind \in DOMAIN a : a[kind] <= b[kind]

\* C18: the score is between 0 and 1, and a call that satisfies at least
\* the conditions of another call, kind by kind, scores at least as much.
C18_ScoreClampedAndMonotone ==
    /\ scored # NoScore => scored.score \in 0..MaxScore
    /\ (before # NoScore /\ NoMore(Satisfied(before), Satisfied(scored)))
           => before.score <= scored.score
    /\ (before # NoScore /\ NoMore(Satisfied(scored), Satisfied(before)))
           => scored.score <= before.score

C18_Witness ==
    /\ before # NoScore
    /\ NoMore(Satisfied(before), Satisfied(scored))
    /\ 0 < before.score
    /\ before.score < scored.score
    /\ scored.score = MaxScore
    /\ rawScore(scored.question, scored.document) > MaxScore

(***************************************************************************)
(* Claims about the matching of questions, checked under SpecMatch.        *)
(***************************************************************************)
Kept == { i \in 1..Len(matched.questions) :
            calculateRelevanceScore(matched.questions[i], matched.document) >= Threshold }

IsKept(question) == calculateRelevanceScore(question, matched.document) >= Threshold

\* C19: the result holds one match for each question that scores 0.3 or
\* more, with that score, and no other match, in descending order of score.
C19_KeepsThresholdAndAbove ==
    matched.done =>
        /\ Len(matched.matches) = Cardinality(Kept)
        /\ \A q \in QuestionInputs :
               Len(SelectSeq(matched.matches, LAMBDA x : x.question = q))
                   = Len(SelectSeq(matched.questions, LAMBDA x : x = q /\ IsKept(x)))
        /\ \A i \in 1..Len(matched.matches) :
               matched.matches[i].relevanceScore
                   = calculateRelevanceScore(matched.matches[i].question, matched.document)
        /\ \A i \in 1..(Len(matched.matches) - 1) :
               matched.matches[i].relevanceScore >= matched.matches[i + 1].relevanceScore

(***************************************************************************)
(* Claims about the callbacks of an earlier theme session, checked under   *)
(* SpecThemes.                                                             *)
(***************************************************************************)
MessageCallbacks == {"opening", "customOpening", "tip", "respondToUser", "photoReply"}

\* C21: a callback that appends an assistant message to chatMessages was
\* scheduled in the current theme session, and the first entry of a chat
\* that starts with an assistant message is the opening of that session.
C21_OnlyMessagesOfTheSession ==
    /\ op.name \in MessageCallbacks => op.sess = session
    /\ (session > 0 /\ chatMessages # <<>> /\ chatMessages[1].type = "nadi")
           => session \in opened

(***************************************************************************)
(* Claims about the replies to typed messages, checked under FairReplies.  *)
(***************************************************************************)
\* non-blank calls of sendMessage() made so far
Typed == sent - Len(uploadedPhotos)

PendingReplies == Cardinality({ i \in 1..Len(timers) : timers[i].kind = "reply" })

BlankInputs == { v \in InputValues : Trim(v) = <<>> }

\* C22: every non-blank sendMessage() is answered by exactly one call of
\* respondToUser: the calls made and the reply timers pending add up to the
\* non-blank sendMessage() calls, every such call is eventually answered,
\* and once no timer is pending the two numbers are equal; a sendMessage()
\* with blank input changes nothing.
C22_EachMessageAnsweredOnce ==
    /\ [](answered + PendingReplies = Typed)
    /\ [](timers = <<>> => answered = Typed)
    /\ \A n \in 1..(MaxUserMsgs + 1) : (Typed >= n) ~> (answered >= n)
    /\ [](\A v \in BlankInputs : ~ENABLED (SendMessage(v) /\ vars' # vars))

C22_Witness ==
    /\ timers = <<>>
    /\ session = MaxSessions
    /\ answered = MaxUserMsgs
    /\ exchangeCount < answered

(***************************************************************************)
(* Claims about the typing indicator and the status display, checked under *)
(* SpecThemes.                                                             *)
(***************************************************************************)
\* pending callbacks that call removeTypingIndicator(), their indicator shown
ShownReplies ==
    Cardinality({ i \in 1..Len(timers) : timers[i].kind \in {"reply", "photoReply"} })

\* C23: the chat holds at most as many typing indicators as there are
\* pending reply callbacks whose indicator has been shown, and none once
\* every timer has fired.
C23_IndicatorsNeverOutliveReplies ==
    /\ typing <= ShownReplies
    /\ timers = <<>> => typing = 0

C23_Witness ==
    /\ op.name \in ThemeResets
    /\ typing = 0
    /\ ShownReplies > 0

\* C28: once updateChatStatus has run, the story button is enabled iff
\* exchangeCount >= 5 and the progress shown is min(10 * exchangeCount, 100).
C28_StatusMatchesCounter ==
    status.set =>
        /\ status.enabled <=> exchangeCount >= StoryThreshold
        /\ status.progress = IF 10 * exchangeCount < 100 THEN 10 * exchangeCount ELSE 100

(***************************************************************************)
(* Claims about the loading indicator, checked under SpecOcr.              *)
(***************************************************************************)
\* calls of recognizeDocument between showLoadingIndicator() and their end
InProgress ==
    { c \in 1..Len(calls) : /\ calls[c].method = "recognizeDocument"
                            /\ calls[c].pc \in {"preprocessImage", "recognize"} }

\* C25: the loading indicator is displayed exactly while some call of
\* recognizeDocument has started recognition and has neither completed nor
\* failed.
C25_IndicatorWhileRecognizing ==
    loadingIndicator <=> InProgress # {}

(***************************************************************************)
(* Claims about cleanup(), checked under SpecCleanup.                      *)
(***************************************************************************)
\* C24: isInitialized = true implies that worker is not null.
C24_InitializedHasWorker ==
    isInitialized => worker # 0

(***************************************************************************)
(* Claims about the history stack, checked under Spec.                     *)
(***************************************************************************)
\* C26: the top of a non-empty history differs from the current screen, and
\* goBack() with a non-empty history changes the current screen.
C26_TopDiffersFromCurrent ==
    /\ [](previousScreens # <<>> => Last(previousScreens) # currentScreen)
    /\ [][(op'.name = "goBack" /\ previousScreens # <<>>)
             => currentScreen' # currentScreen]_vars

C26_Witness ==
    /\ op.name = "goBack"
    /\ op.k > 1
    /\ Len(previousScreens) > 1
    /\ currentScreen = op.screen

HistoryResets == {"goToSplash", "goToScenarios", "backToWelcome"}

\* C27: after goToSplash(), goToScenarios() or backToWelcome() with an
\* existing target, the history is empty when the target was the current
\* screen, and holds just the screen that was current otherwise.
C27_ResetLeavesAtMostOneEntry ==
    [][(op'.name \in HistoryResets /\ op'.screen \in dom)
          => previousScreens' = IF currentScreen = op'.screen
                                THEN <<>> ELSE <<currentScreen>>]_vars

C27_Witness ==
    /\ op.name \in HistoryResets
    /\ op.screen \in dom
    /\ op.k > 1
    /\ Len(previousScreens) = 1

(***************************************************************************)
(* Claims about startFromSplash(), checked under SpecSplash and, with the  *)
(* event loop, under FairSplash.                                           *)
(***************************************************************************)
ResetTimers == { i \in 1..Len(timers) : timers[i].kind = "reset" }

\* C29: a startFromSplash() made while isTransitioning is true leaves
\* currentScreen, previousScreens, the active screen, the pending timers
\* and the flag as they are, and at most one reset timer is pending.
C29_CallWhileTransitioningIgnored ==
    /\ [](Cardinality(ResetTimers) <= 1)
    /\ [][(isTransitioning /\ op'.name = "startFromSplash")
             => UNCHANGED <<currentScreen, previousScreens, active, timers,
                            isTransitioning>>]_vars

C29_Witness ==
    /\ op = NavOp("startFromSplash", "")
    /\ isTransitioning
    /\ \E i \in ResetTimers : timers[i].rem < ResetDelay

\* C30: while isTransitioning is true a reset timer is pending; the flag
\* becomes false again; and a startFromSplash() made while it is false
\* either shows 'scenarioSelect' and sets the flag, or, when showScreen
\* throws, leaves the flag false.
C30_GuardNeverSticks ==
    /\ [](isTransitioning => ResetTimers # {})
    /\ isTransitioning ~> ~isTransitioning
    /\ [][(~isTransitioning /\ op'.name = "startFromSplash")
             => \/ /\ isTransitioning'
                   /\ currentScreen' = "scenarioSelect"
                   /\ active' = {"scenarioSelect"}
                \/ /\ ~isTransitioning'
                   /\ UNCHANGED <<currentScreen, previousScreens, active, timers>>]_vars

C30_Witness ==
    /\ op = NavOp("startFromSplash", "scenarioSelect")
    /\ isTransitioning
    /\ op.k > 1
    /\ \E i \in 1..Len(previousScreens) : previousScreens[i] = "scenarioSelect"

(***************************************************************************)
(* Claims about the attachment count of the story, checked under           *)
(* SpecStory.                                                              *)
(***************************************************************************)
IsPhotoMessage(msg) ==
    /\ msg.type = "user"
    /\ \E name \in FileNames : msg.text = PhotoText(name)

\* C34: after generateStory() the attachment count shown is the number of
\* photo-upload messages in the current chatMessages.
C34_ImagesOfCurrentChat ==
    op.name = "finishChat" => imagesCount = Len(SelectSeq(chatMessages, IsPhotoMessage))

(***************************************************************************)
(* Voice input.  The class 'active' of #voiceIndicator is added and        *)
(* removed together with appState.isVoiceActive and is represented by it.  *)
(***************************************************************************)
MaxVoice == 3

VoiceDelay == 6

SimulatedText == <<"voice text">>

stopVoice == isVoiceActive' = FALSE

startVoice ==
    /\ isVoiceActive' = TRUE
    /\ voiceStarts' = voiceStarts + 1
    /\ timers' = Append(timers, Timer("voice", VoiceDelay, "", <<>>, voiceStarts + 1))

ToggleVoice ==
    /\ IF isVoiceActive
       THEN /\ stopVoice
            /\ voiceStopped' = voiceStopped \cup {voiceStarts}
            /\ UNCHANGED <<voiceStarts, timers>>
       ELSE /\ startVoice
            /\ UNCHANGED voiceStopped
    /\ op' = ChatOp("toggleVoice", "", voiceStarts', session)
    /\ NavUnchanged
    /\ UNCHANGED <<userInput, sendButton>>
    /\ UNCHANGED <<selectedTheme, chatMessages, exchangeCount, timeCount,
                   uploadedPhotos, typing, status, session, sent, storyVars,
                   opened, answered, isTransitioning, swipeVars, libVars>>

\* startVoice, the callback: the simulated text, the send button, stopVoice()
VoiceFires ==
    /\ Due # {}
    /\ T.kind = "voice"
    /\ userInput' = SimulatedText
    /\ sendButton' = TRUE
    /\ stopVoice
    /\ timers' = Without(timers, FirstDue)
    /\ op' = ChatOp("voiceTimer", "", T.k, T.sess)
    /\ NavUnchanged
    /\ UNCHANGED <<voiceStarts, voiceStopped>>
    /\ UNCHANGED <<selectedTheme, chatMessages, exchangeCount, timeCount,
                   uploadedPhotos, typing, status, session, sent, storyVars,
                   opened, answered, isTransitioning, swipeVars, libVars>>

(***************************************************************************)
(* The chat screen with voice input: toggleVoice() pressed at any time,    *)
(* the field sent as the page left it, and the event loop.                 *)
(***************************************************************************)
NextVoice ==
    \/ /\ isVoiceActive \/ voiceStarts < MaxVoice
       /\ ToggleVoice
    \/ /\ sent < MaxUserMsgs
       /\ userInput # <<>>
       /\ SendMessage(userInput)
    \/ Tick
    \/ VoiceFires
    \/ ReplyFires

SpecVoice == InitChat /\ [][NextVoice]_vars

\* C31: the timer of a voice session that toggleVoice() already stopped
\* neither writes the simulated text nor shows the send button, and the
\* timer of one session never deactivates a session started later.
C31_TimerActsOnOwnSession ==
    [][op'.name = "voiceTimer" =>
          /\ (op'.k \in voiceStopped => UNCHANGED <<userInput, sendButton>>)
          /\ (isVoiceActive /\ voiceStarts # op'.k => isVoiceActive')]_vars


(***************************************************************************)
(* The story page: navigateStory() and the transient message of the swipe  *)
(* hint.  The page has a #swipeIndicator; a message is [kind, n], n being  *)
(* the number it names.                                                    *)
(***************************************************************************)
StoryCount == 3

SwipeDelay == 3

Directions == {"prev", "next"}

SwipeText(kind, n) == [ kind |-> kind, n |-> n ]

\* showSwipeMessage(message): the hint after the call, and the timer scheduled
showSwipeMessage(message) ==
    /\ swipeHint' = [ text |-> message, fontWeight |-> "600" ]
    /\ timers' = Append(timers, Timer("swipe", SwipeDelay, "", swipeHint.text, 0))

NavigateStory(direction) ==
    /\ IF direction = "prev" /\ storyIndex > 0
       THEN /\ storyIndex' = storyIndex - 1
            /\ shownStory' = storyIndex - 1
            /\ showSwipeMessage(SwipeText("story.prev", storyIndex))
       ELSE IF direction = "next" /\ storyIndex < StoryCount - 1
       THEN /\ storyIndex' = storyIndex + 1
            /\ shownStory' = storyIndex + 1
            /\ showSwipeMessage(SwipeText("story.next", storyIndex + 2))
       ELSE IF direction = "prev" /\ storyIndex = 0
       THEN /\ showSwipeMessage(SwipeText("first", 0))
            /\ UNCHANGED <<storyIndex, shownStory>>
       ELSE IF direction = "next" /\ storyIndex = StoryCount - 1
       THEN /\ showSwipeMessage(SwipeText("last", 0))
            /\ UNCHANGED <<storyIndex, shownStory>>
       ELSE UNCHANGED <<storyIndex, shownStory, swipeHint, timers>>
    /\ op' = ChatOp("navigateStory", direction, storyIndex', session)
    /\ NavUnchanged
    /\ UNCHANGED <<selectedTheme, chatMessages, exchangeCount, timeCount,
                   uploadedPhotos, typing, status, session, sent, storyVars,
                   opened, answered, isTransitioning, voiceVars, libVars>>

\* showSwipeMessage, the callback: the text read before the call is put back
SwipeFires ==
    /\ Due # {}
    /\ T.kind = "swipe"
    /\ swipeHint' = [ text |-> T.text, fontWeight |-> "500" ]
    /\ timers' = Without(timers, FirstDue)
    /\ op' = ChatOp("swipeTimer", "", 0, T.sess)
    /\ NavUnchanged
    /\ UNCHANGED <<storyIndex, shownStory>>
    /\ UNCHANGED <<selectedTheme, chatMessages, exchangeCount, timeCount,
                   uploadedPhotos, typing, status, session, sent, storyVars,
                   opened, answered, isTransitioning, voiceVars, libVars>>

MaxSwipes == 3

NextSwipe ==
    \/ /\ Len(timers) < MaxSwipes
       /\ \E direction \in Directions : NavigateStory(direction)
    \/ Tick
    \/ SwipeFires

SpecSwipe == InitChat /\ [][NextSwipe]_vars

\* C32: once every timer of showSwipeMessage has fired, the swipe hint
\* shows the text it had before the first call.
C32_HintRestored ==
    timers = <<>> => swipeHint.text = StaticHint.text


(***************************************************************************)
(* start_audit.bat, as cmd.exe runs it.  cmd reads one statement at a      *)
(* time, a parenthesized block as a whole, and replaces %errorlevel% by    *)
(* its value when the statement is read.  Inside a block an unescaped ')'  *)
(* ends the block wherever it stands: the block opened on line 23 ends     *)
(* with the ')' of the echo of line 25.  Lines 26 to 39 are therefore read *)
(* and run on their own, whatever the test of line 23 gave; the lines 40   *)
(* and 42 begin with a ')' that closes nothing and are skipped like        *)
(* remarks, and the echo of line 41 runs in every case.  The exit codes    *)
(* of 'start' and 'timeout' are overwritten before any test reads them.    *)
(***************************************************************************)
MaxExit == 2

ExitCodes == 0..MaxExit

Ran(cmd, exit) == [ cmd |-> cmd, exit |-> exit ]

BatFrame == UNCHANGED <<pageVars, ocrVars, textVars, matchVars>>

\* the same test, had line 28 been read as part of the block of line 23
TestOfPullInBlock(b) == b.expanded

\* the value the test of line 28 compares with 0: %errorlevel% as replaced
\* when line 28 is read, after 'ollama pull' has run
TestOfPull(b) == b.errorlevel

\* lines 1 to 6: the banner
StartAudit ==
    /\ bat.pc = "not started"
    /\ bat' = [ bat EXCEPT !.pc = "ollama", !.out = <<"banner">> ]
    /\ BatFrame

\* lines 9 to 18: 'ollama list', and the service started if it failed
CheckOllama(exit) ==
    /\ bat.pc = "ollama"
    /\ bat' = [ bat EXCEPT
           !.pc = "model",
           !.errorlevel = exit,
           !.ran = IF exit # 0
                   THEN @ \o <<Ran("ollama list", exit), Ran("start ollama serve", 0),
                               Ran("timeout", 0)>>
                   ELSE Append(@, Ran("ollama list", exit)),
           !.out = IF exit # 0
                   THEN @ \o <<"[1/3]", "not running", "started">>
                   ELSE @ \o <<"[1/3]", "already running">> ]
    /\ BatFrame

\* lines 20 to 25: 'ollama list | findstr llama3.2', and the block of line 23
CheckModel(exit) ==
    /\ bat.pc = "model"
    /\ bat' = [ bat EXCEPT
           !.pc = "pull",
           !.errorlevel = exit,
           !.expanded = exit,
           !.ran = Append(@, Ran("findstr", exit)),
           !.out = IF exit # 0
                   THEN @ \o <<"[2/3]", "not found", "may take 3-5 minutes">>
                   ELSE Append(@, "[2/3]") ]
    /\ BatFrame

\* lines 26 to 39: 'ollama pull', and the statement of line 28
PullModel(exit) ==
    /\ bat.pc = "pull"
    /\ LET pulled == [ bat EXCEPT !.errorlevel = exit ]
       IN  bat' = [ pulled EXCEPT
               !.pc = "application",
               !.ran = IF TestOfPull(pulled) # 0
                       THEN @ \o <<Ran("ollama pull", exit), Ran("timeout", 0)>>
                       ELSE Append(@, Ran("ollama pull", exit)),
               !.out = IF TestOfPull(pulled) # 0
                       THEN @ \o <<"please wait", "WARNING: failed to download",
                                   "DEMO mode">>
                       ELSE @ \o <<"please wait", "downloaded successfully">> ]
    /\ BatFrame

\* lines 40 to 46: the echo of line 41, and the application
StartApplication(exit) ==
    /\ bat.pc = "application"
    /\ bat' = [ bat EXCEPT
           !.pc = "report",
           !.errorlevel = exit,
           !.ran = Append(@, Ran("python audit_processor.py", exit)),
           !.out = @ \o <<"found", "[3/3]">> ]
    /\ BatFrame

\* lines 48 to 56
Report ==
    /\ bat.pc = "report"
    /\ bat' = [ bat EXCEPT
           !.pc = "done",
           !.ran = IF bat.errorlevel # 0 THEN Append(@, Ran("pause", 0)) ELSE @,
           !.out = IF bat.errorlevel # 0
                   THEN Append(@, "Error: failed to start application")
                   ELSE Append(@, "closed successfully") ]
    /\ BatFrame

NextBat ==
    \/ StartAudit
    \/ \E exit \in ExitCodes : CheckOllama(exit)
    \/ \E exit \in ExitCodes : CheckModel(exit)
    \/ \E exit \in ExitCodes : PullModel(exit)
    \/ \E exit \in ExitCodes : StartApplication(exit)
    \/ Report

SpecBat == InitChat /\ [][NextBat]_vars

Printed(line) == \E i \in 1..Len(bat.out) : bat.out[i] = line

ExitOf(cmd) ==
    LET i == CHOOSE i \in 1..Len(bat.ran) : bat.ran[i].cmd = cmd
    IN  bat.ran[i].exit

HasRun(cmd) == \E i \in 1..Len(bat.ran) : bat.ran[i].cmd = cmd

ModelMissing == HasRun("findstr") /\ ExitOf("findstr") # 0

\* the application is the last program started, after both checks
ApplicationAfterChecks ==
    \E i \in 1..Len(bat.ran) :
        /\ bat.ran[i].cmd = "python audit_processor.py"
        /\ \E j \in 1..(i - 1) : bat.ran[j].cmd = "ollama list"
        /\ \E j \in 1..(i - 1) : bat.ran[j].cmd = "findstr"
        /\ \A j \in (i + 1)..Len(bat.ran) : bat.ran[j].cmd = "pause"

\* C33: when the model is missing and pulled, 'downloaded successfully' is
\* printed iff 'ollama pull' exits with 0 and the WARNING iff it exits with
\* another code; and every run invokes the application after the checks.
C33_PullReportedAndApplicationStarted ==
    /\ ModelMissing /\ HasRun("ollama pull") =>
           /\ Printed("downloaded successfully") <=> ExitOf("ollama pull") = 0
           /\ Printed("WARNING: failed to download") <=> ExitOf("ollama pull") # 0
    /\ bat.pc = "done" => ApplicationAfterChecks

C33_Witness ==
    /\ bat.pc = "done"
    /\ ModelMissing
    /\ ExitOf("ollama list") # 0
    /\ ExitOf("ollama pull") = 0
    /\ Printed("downloaded successfully")


====
